---- MODULE Spec2Model ----
(***************************************************************************)
(* Model of the sweep recon pipeline (vulnverified/sweep).                 *)
(*                                                                         *)
(* Host names and domains are sequences of one-character strings, so that  *)
(* lower-casing, trimming and suffix tests are computed as the Go code     *)
(* computes them.                                                          *)
(***************************************************************************)
EXTENDS Integers, Sequences, FiniteSets, TLC

VARIABLES
    ctxDone,        \* the run's context has been cancelled
    domain,         \* cfg.Target / the domain argument of Enumerate
    axfr,           \* Enumerator.AXFR
    concurrency,    \* cfg.Concurrency
    stages,         \* which implementation each field of Stages holds
    mocks,          \* the fields of the mock stages
    remote,         \* the names each remote data source knows
    dns,            \* the answers the resolver stage gets, per host
    enumPc,         \* position of Enumerator.Enumerate: idle, running, returned
    hostSources,    \* Enumerate's local map hostname -> list of source names
    srcPc,          \* position of each source goroutine: idle, off, running, done
    srcRet,         \* what each source function returned to its goroutine
    warnings,       \* Enumerator.warnings
    zoneTransfers,  \* Enumerator.zoneTransfers
    axfrRun,        \* the AttemptZoneTransfers call, followed step by step
    fetchRun,       \* the fetch of one remote source, followed request by request
    bruteRun,       \* the BruteEnumerate call, followed worker by worker
    mu,             \* who holds each sync.Mutex
    enumRet,        \* the pair (subdomains, error) returned by Enumerate
    progressWarn,   \* messages passed to ProgressReporter.Warn
    tcp,            \* the <<address, port>> pairs that accept a TCP connection
    web,            \* what answers an HTTP request to <<host, port, scheme>>
    work,           \* DNSResolve's work channel (closed, buffered)
    workerPc,       \* each DNSResolve worker: at the loop head, in a lookup, returned
    dnsResults,     \* DNSResolve's results slice
    danglings,      \* DNSResolve's danglings slice
    lookupLog,      \* the lookups made, with what they returned, in completion order
    scanWork,       \* PortScan's work channel (closed, buffered)
    scanPc,         \* each PortScan worker: at the loop head, in a dial, returned
    scanResults,    \* PortScan's results slice
    dialLog,        \* the dials made, with what they returned, in completion order
    probeWork,      \* HTTPProbe's work channel (closed, buffered)
    probePc,        \* each HTTPProbe worker: at the loop head, in a request, returned
    probeResults,   \* HTTPProbe's result.Services
    requestLog,     \* the requests made, with what they returned, in completion order
    callFn,         \* a function called on its own: its name
    callArgs,       \* its arguments
    callRet,        \* its return value, once it returned
    pc,             \* position of Run: init, enumerate, resolve, scan, probe, done
    result,         \* the ScanResult Run is assembling
    runRet,         \* what Run returned: the result (or Nil) and the error
    trace           \* stage notifications, stage calls and returns, in order

\* the run's inputs and environment, fixed from construction (ctxDone apart)
cfgVars == <<domain, axfr, concurrency, stages, mocks, remote, dns, tcp, web>>

\* the state of one Enumerate call and of the Enumerator
enumVars == <<enumPc, hostSources, srcPc, srcRet, warnings, zoneTransfers, axfrRun, fetchRun,
              bruteRun, mu, enumRet>>

\* the state of one DNSResolve call
resolveVars == <<work, workerPc, dnsResults, danglings, lookupLog>>

\* the state of one PortScan call
scanVars == <<scanWork, scanPc, scanResults, dialLog>>

\* the state of one HTTPProbe call
probeVars == <<probeWork, probePc, probeResults, requestLog>>

\* the state of a function called on its own
callVars == <<callFn, callArgs, callRet>>

\* the state of Run
runVars == <<pc, result, runRet, trace>>

vars == <<ctxDone, cfgVars, enumVars, progressWarn, resolveVars, scanVars, probeVars,
          runVars, callVars>>

----------------------------------------------------------------------------
(* Bounds                                                                  *)

\* longest remote response body, in name entries
MaxRaw == 2
\* most nameservers returned by the NS lookup
MaxNS == 1
\* most resource records in one zone transfer
MaxRRs == 1
\* largest concurrency budget
MaxConcurrency == 2
\* longest chain of redirects a server answers with
MaxChain == 6
\* most calls of a function on the same data
MaxCalls == 3
\* most nameservers of a zone whose transfers are followed one by one
MaxZoneNS == 2

----------------------------------------------------------------------------
(* Strings                                                                 *)

UpperCase ==
    <<"A", "B", "C", "D", "E", "F", "G", "H", "I", "J", "K", "L", "M",
      "N", "O", "P", "Q", "R", "S", "T", "U", "V", "W", "X", "Y", "Z">>

LowerCase ==
    <<"a", "b", "c", "d", "e", "f", "g", "h", "i", "j", "k", "l", "m",
      "n", "o", "p", "q", "r", "s", "t", "u", "v", "w", "x", "y", "z">>

\* the characters of the model, in byte order
ByteOrder ==
    <<" ", "*", "-", ".", "0", "1", "2", "3", "4", "5", "6", "7", "8", "9">>
    \o UpperCase \o LowerCase

\* position of a character in byte order
CharCode(c) == CHOOSE i \in DOMAIN ByteOrder : ByteOrder[i] = c

\* unicode.ToLower on one character
ToLowerChar(c) ==
    IF \E i \in DOMAIN UpperCase : UpperCase[i] = c
    THEN LowerCase[CHOOSE i \in DOMAIN UpperCase : UpperCase[i] = c]
    ELSE c

\* strings.ToLower
ToLower(s) == [i \in 1..Len(s) |-> ToLowerChar(s[i])]

\* strings.HasSuffix
HasSuffix(s, suffix) ==
    /\ Len(s) >= Len(suffix)
    /\ SubSeq(s, Len(s) - Len(suffix) + 1, Len(s)) = suffix

\* strings.HasPrefix
HasPrefix(s, prefix) ==
    /\ Len(s) >= Len(prefix)
    /\ SubSeq(s, 1, Len(prefix)) = prefix

\* strings.TrimPrefix
TrimPrefix(s, prefix) ==
    IF HasPrefix(s, prefix) THEN SubSeq(s, Len(prefix) + 1, Len(s)) ELSE s

\* strings.TrimSuffix
TrimSuffix(s, suffix) ==
    IF HasSuffix(s, suffix) THEN SubSeq(s, 1, Len(s) - Len(suffix)) ELSE s

RECURSIVE TrimLeft(_)
TrimLeft(s) == IF s # <<>> /\ Head(s) = " " THEN TrimLeft(Tail(s)) ELSE s

RECURSIVE TrimRight(_)
TrimRight(s) ==
    IF s # <<>> /\ s[Len(s)] = " " THEN TrimRight(SubSeq(s, 1, Len(s) - 1)) ELSE s

\* strings.TrimSpace
TrimSpace(s) == TrimRight(TrimLeft(s))

\* strings.Contains
Contains(s, substr) ==
    \E i \in 0..(Len(s) - Len(substr)) : SubSeq(s, i + 1, i + Len(substr)) = substr

\* Go's < on strings: byte-wise lexicographic order
RECURSIVE StrLess(_, _)
StrLess(s, t) ==
    IF t = <<>> THEN FALSE
    ELSE IF s = <<>> THEN TRUE
    ELSE IF CharCode(Head(s)) # CharCode(Head(t))
         THEN CharCode(Head(s)) < CharCode(Head(t))
         ELSE StrLess(Tail(s), Tail(t))

Range(f) == {f[i] : i \in DOMAIN f}

\* all sequences over S of length at most n
SeqsUpTo(S, n) == UNION {[1..k -> S] : k \in 0..n}

----------------------------------------------------------------------------
(* Names the environment can produce                                       *)

Dot == <<".">>
LowerDomain == <<"x", ".", "i", "o">>
MixedDomain == <<"X", ".", "i", "o">>
Domains == {LowerDomain, MixedDomain}

\* names a passive-DNS response can contain
RawNames ==
    { <<"W", ".", "x", ".", "i", "o", " ">>,    \* a subdomain, upper case, padded
      <<"w", "x", ".", "i", "o">>,              \* foreign name sharing the tail
      <<>> }                                    \* blank entry

\* names a certificate-transparency response can contain
CertNames == RawNames \cup { <<"*", ".", "x", ".", "i", "o">> }

\* resource record names a zone transfer can return (fully qualified)
ZoneNames ==
    { <<"W", ".", "x", ".", "i", "o", ".">>,
      <<"x", ".", "i", "o", ".">>,
      <<"w", "x", ".", "i", "o", ".">> }

\* the embedded brute-force wordlist: distinct, non-blank labels
Words == << <<"w">>, <<"W">> >>

\* nameserver names, in NS lookup order
NSNames == <<"ns1", "ns2", "ns3">>

\* every remote source knows every name
FullRemote == [cert |-> CertNames, api |-> RawNames, zone |-> ZoneNames]

\* the remote sources know no name
EmptyRemote == [cert |-> {}, api |-> {}, zone |-> {}]

\* the remote sources know only w
SmallRemote ==
    [cert |-> { <<"w", ".", "x", ".", "i", "o">> }, api |-> {},
     zone |-> { <<"w", ".", "x", ".", "i", "o", ".">> }]

\* only the zone is populated: a subdomain and the domain itself
ZoneRemote ==
    [cert |-> {}, api |-> {},
     zone |-> { <<"W", ".", "x", ".", "i", "o", ".">>, <<"x", ".", "i", "o", ".">> }]

\* the end-to-end scenario: the certificate logs know w, the passive-DNS
\* services know a, the zone gives nothing
ScenarioRemote ==
    [cert |-> { <<"w", ".", "x", ".", "i", "o">> }, api |-> { <<"a", ".", "x", ".", "i", "o">> }, zone |-> {}]

Remotes == {FullRemote, SmallRemote, EmptyRemote, ZoneRemote, ScenarioRemote}

\* a remote fetch: failed, or a body of at most MaxRaw entries among names
FetchOutcomes(names) ==
    {[err |-> TRUE, body |-> <<>>]} \cup
    {[err |-> FALSE, body |-> b] : b \in SeqsUpTo(names, MaxRaw)}

\* one zone transfer: failed, or the record names of the zone
AXFROutcomes(names) ==
    {[err |-> TRUE, rrs |-> <<>>]} \cup
    {[err |-> FALSE, rrs |-> b] : b \in SeqsUpTo(names, MaxRRs)}

\* the NS lookup: failed, or a (possibly empty) list of nameservers, each with
\* the outcome its transfer will have
NSOutcomes(names) ==
    {[err |-> TRUE, ns |-> <<>>]} \cup
    {[err |-> FALSE, ns |-> l] : l \in SeqsUpTo(AXFROutcomes(names), MaxNS)}

----------------------------------------------------------------------------
(* Subdomain sources                                                       *)

SourceNames == {"crt.sh", "brute", "hackertarget", "otx", "axfr"}

\* the seen-map idiom: append x unless already present
AppendUnique(acc, x) == IF x \in Range(acc) THEN acc ELSE Append(acc, x)

\* a test on the tail alone
SharesTail(name, d) == HasSuffix(name, d)

\* "must be a subdomain of the target"
InDomain(name, d) == HasSuffix(name, Dot \o d) \/ name = d

RECURSIVE CrtshHosts(_, _, _)
CrtshHosts(entries, d, hosts) ==
    IF entries = <<>> THEN hosts
    ELSE LET name == TrimSpace(ToLower(Head(entries)))
             bare == IF HasPrefix(name, <<"*", ".">>)
                     THEN TrimPrefix(name, <<"*", ".">>) ELSE name
         IN  IF name = <<>> \/ ~InDomain(bare, d)
             THEN CrtshHosts(Tail(entries), d, hosts)
             ELSE CrtshHosts(Tail(entries), d, AppendUnique(hosts, bare))

\* CrtshEnumerate, given what crtshFetch returned
CrtshEnumerate(fetch, d) ==
    IF fetch.err THEN [err |-> TRUE, hosts |-> <<>>]
    ELSE [err |-> FALSE, hosts |-> CrtshHosts(fetch.body, d, <<>>)]

\* what CrtshEnumerate can return for a domain, over every outcome of the
\* fetch from a remote: triples <<remote, domain, return value>>
CrtshResults ==
    UNION {{<<rm, d, CrtshEnumerate(fetch, d)>> : fetch \in FetchOutcomes(rm.cert)} :
              rm \in Remotes, d \in Domains}

RECURSIVE HostListHosts(_, _, _)
HostListHosts(entries, d, hosts) ==
    IF entries = <<>> THEN hosts
    ELSE LET host == ToLower(TrimSpace(Head(entries)))
         IN  IF host = <<>> \/ ~InDomain(host, d)
             THEN HostListHosts(Tail(entries), d, hosts)
             ELSE HostListHosts(Tail(entries), d, AppendUnique(hosts, host))

\* parseHackertargetResponse, on the host column of the body's lines
parseHackertargetResponse(body, d) == HostListHosts(body, d, <<>>)

\* HackertargetEnumerate, given what hackertargetFetch returned
HackertargetEnumerate(fetch, d) ==
    IF fetch.err THEN [err |-> TRUE, hosts |-> <<>>]
    ELSE [err |-> FALSE, hosts |-> parseHackertargetResponse(fetch.body, d)]

\* what HackertargetEnumerate can return, over every outcome of the fetch
HackertargetResults ==
    UNION {{<<rm, d, HackertargetEnumerate(fetch, d)>> : fetch \in FetchOutcomes(rm.api)} :
              rm \in Remotes, d \in Domains}

\* parseOTXResponse, on the hostname fields of the passive_dns entries
parseOTXResponse(body, d) == HostListHosts(body, d, <<>>)

\* OTXEnumerate, given what otxFetch returned
OTXEnumerate(fetch, d) ==
    IF fetch.err THEN [err |-> TRUE, hosts |-> <<>>]
    ELSE [err |-> FALSE, hosts |-> parseOTXResponse(fetch.body, d)]

\* what OTXEnumerate can return, over every outcome of the fetch
OTXResults ==
    UNION {{<<rm, d, OTXEnumerate(fetch, d)>> : fetch \in FetchOutcomes(rm.api)} :
              rm \in Remotes, d \in Domains}

\* BruteEnumerate: resolved lists, in completion order, the indices of the
\* words whose lookup returned an address
BruteEnumerate(resolved, d) ==
    IF Len(Words) = 0 THEN [err |-> TRUE, hosts |-> <<>>]
    ELSE [err |-> FALSE,
          hosts |-> [i \in 1..Len(resolved) |->
                        ToLower(Words[resolved[i]] \o Dot \o d)]]

\* the orders in which some of the first n work items can complete
Completions(n) ==
    {q \in SeqsUpTo(1..n, n) : \A i, j \in 1..Len(q) : i # j => q[i] # q[j]}

RECURSIVE AXFRHosts(_, _, _)
AXFRHosts(rrs, d, hostnames) ==
    IF rrs = <<>> THEN hostnames
    ELSE LET name == ToLower(TrimSuffix(Head(rrs), Dot))
         IN  IF name = <<>>
                \/ (~HasSuffix(name, Dot \o ToLower(d)) /\ name # ToLower(d))
             THEN AXFRHosts(Tail(rrs), d, hostnames)
             ELSE AXFRHosts(Tail(rrs), d, AppendUnique(hostnames, name))

\* attemptAXFR, given the outcome of the transfer
attemptAXFR(xfer, d) ==
    IF xfer.err THEN [err |-> TRUE, hostnames |-> <<>>]
    ELSE [err |-> FALSE, hostnames |-> AXFRHosts(xfer.rrs, d, <<>>)]

RECURSIVE AppendAllUnique(_, _)
AppendAllUnique(acc, xs) ==
    IF xs = <<>> THEN acc
    ELSE AppendAllUnique(AppendUnique(acc, Head(xs)), Tail(xs))

RECURSIVE ZoneTransferLoop(_, _, _, _)
ZoneTransferLoop(ns, i, d, acc) ==
    IF i > Len(ns) THEN acc
    ELSE LET got == attemptAXFR(ns[i], d)
             transfer == [Nameserver |-> NSNames[i],
                          Success |-> ~got.err,
                          Records |-> Len(got.hostnames)]
         IN  ZoneTransferLoop(ns, i + 1, d,
                 [Transfers |-> Append(acc.Transfers, transfer),
                  Hostnames |-> AppendAllUnique(acc.Hostnames, got.hostnames)])

\* AttemptZoneTransfers, given the outcome of the NS lookup
AttemptZoneTransfers(lookup, d) ==
    IF lookup.err \/ Len(lookup.ns) = 0
    THEN [err |-> TRUE, Transfers |-> <<>>, Hostnames |-> <<>>]
    ELSE LET r == ZoneTransferLoop(lookup.ns, 1, d,
                      [Transfers |-> <<>>, Hostnames |-> <<>>])
         IN  [err |-> FALSE, Transfers |-> r.Transfers, Hostnames |-> r.Hostnames]

----------------------------------------------------------------------------
(* Remote fetches                                                          *)

\* the remote sources that fetch over HTTP
RemoteSources == {"crt.sh", "hackertarget", "otx"}

StatusOK == 200
StatusTooManyRequests == 429

\* the plain-text message HackerTarget answers with when rate limited
hackertargetRateMsg == <<"A", "P", "I", " ", "c", "o", "u", "n", "t", " ", "e", "x", "c", "e", "e", "d", "e", "d">>

\* fmt's %d of a status code
Digits == <<"0", "1", "2", "3", "4", "5", "6", "7", "8", "9">>
RECURSIVE Itoa(_)
Itoa(n) == IF n < 10 THEN <<Digits[n + 1]>> ELSE Itoa(n \div 10) \o <<Digits[(n % 10) + 1]>>

\* the name a source gives itself in its error texts
ErrPrefix(s) ==
    IF s = "crt.sh" THEN <<"c", "r", "t", ".", "s", "h">>
    ELSE IF s = "hackertarget" THEN <<"h", "a", "c", "k", "e", "r", "t", "a", "r", "g", "e", "t">>
    ELSE <<"o", "t", "x">>

\* ctx.Err(), and the error of a request made or cut short on a cancelled ctx
ContextCanceled == <<"c", "o", "n", "t", "e", "x", "t", " ", "c", "a", "n", "c", "e", "l", "e", "d">>

\* errors of http.Client.Do: a timeout, and a connection reset whose text
\* names the local port, as net.OpError does
TransportErrors == { <<"t", "i", "m", "e", "o", "u", "t">>, <<"r", "e", "a", "d", " ", "t", "c", "p", " ", ":", "5", "4", "2", "9", "0", ":", " ", "r", "e", "s", "e", "t">> }

\* an exchange with the remote end: the error of Client.Do, or a status and
\* the lines of a body
Response(transport, status, body) == [transport |-> transport, status |-> status, body |-> body]

\* what a request can come back with: on a cancelled ctx the cancellation
\* error; otherwise a transport error, a status without a body, a body of the
\* names the remote knows, or the rate-limit message
Answers(names, done) ==
    IF done THEN {Response(ContextCanceled, 0, <<>>)}
    ELSE {Response(e, 0, <<>>) : e \in TransportErrors}
         \cup {Response(<<>>, st, <<>>) : st \in {StatusTooManyRequests, 500, 404}}
         \cup {Response(<<>>, StatusOK, b) : b \in {<<>>} \cup {<<n>> : n \in names}}
         \cup {Response(<<>>, StatusOK, <<hackertargetRateMsg>>)}

\* crtshDoRequest, hackertargetDoRequest, otxDoRequest: the error text, or the body
doRequest(s, resp) ==
    IF resp.transport # <<>> THEN [err |-> resp.transport, body |-> <<>>]
    ELSE IF resp.status = StatusTooManyRequests
    THEN [err |-> ErrPrefix(s) \o <<" ", "r", "a", "t", "e", " ", "l", "i", "m", "i", "t", "e", "d", " ", "(", "4", "2", "9", ")">>, body |-> <<>>]
    ELSE IF resp.status # StatusOK
    THEN [err |-> ErrPrefix(s) \o <<" ", "r", "e", "t", "u", "r", "n", "e", "d", " ", "s", "t", "a", "t", "u", "s", " ">> \o Itoa(resp.status), body |-> <<>>]
    ELSE IF s = "hackertarget" /\ \E l \in Range(resp.body) : Contains(l, hackertargetRateMsg)
    THEN [err |-> <<"h", "a", "c", "k", "e", "r", "t", "a", "r", "g", "e", "t", ":", " ">> \o hackertargetRateMsg, body |-> <<>>]
    ELSE [err |-> <<>>, body |-> resp.body]

\* a fetch that takes no error for a rate limit
NeverRateLimited(s, err) == FALSE

\* "don't retry on rate limit": decided on the text of the error
RateLimited(s, err) ==
    \/ Contains(err, <<"4", "2", "9">>)
    \/ s = "hackertarget" /\ Contains(err, hackertargetRateMsg)

\* a fetch before its first request: the source followed, where the fetch
\* stands, the answers its requests got, and what it returns
NoFetch == [source |-> "", pc |-> "idle", requests |-> <<>>, err |-> <<>>, body |-> <<>>]

\* AttemptZoneTransfers before it is called: where it stands, how many
\* nameservers the lookup found, how each transfer went and the record names
\* it carried, the result so far, and what it returns
NotCalled ==
    [pc |-> "idle", nameservers |-> 0, lookupErr |-> FALSE, nilResult |-> FALSE,
     exchanges |-> <<>>, Transfers |-> <<>>, Hostnames |-> <<>>, err |-> FALSE]

\* BruteEnumerate before it is called: where it stands, the words still on
\* the channel, its workers, the found slice, the words looked up so far
NoBrute ==
    [pc |-> "idle", work |-> <<>>, workers |-> <<>>, found |-> <<>>, lookups |-> <<>>]

\* the mutexes: e.mu of the Enumerator and the mu local to each pool
Mutexes == {"Enumerator", "BruteEnumerate", "DNSResolve", "PortScan", "HTTPProbe"}

\* the zero value of a sync.Mutex
Free == <<>>

\* no mutex is held
Unlocked == [m \in Mutexes |-> Free]

----------------------------------------------------------------------------
(* Enumerator.Enumerate                                                    *)

NoRet == [err |-> FALSE, hosts |-> <<>>]
NoEnumRet == [subs |-> <<>>, err |-> FALSE]

\* the text of a warning: which source, and what it says
Warning(source, text) == [source |-> source, text |-> text]

\* hostSources[h] = append(hostSources[h], name) for each h of hosts
RECURSIVE MergeHosts(_, _, _)
MergeHosts(hs, hosts, name) ==
    IF hosts = <<>> THEN hs
    ELSE LET h == Head(hosts)
             old == IF h \in DOMAIN hs THEN hs[h] ELSE <<>>
         IN  MergeHosts((h :> Append(old, name)) @@ hs, Tail(hosts), name)

\* the source list returned as accumulated
SourcesAsAccumulated(ss) == ss

deduplicateSources(ss) == AppendAllUnique(<<>>, ss)

\* sort.Slice by Host over the keys of the map (keys are distinct)
RECURSIVE SortHosts(_)
SortHosts(S) ==
    IF S = {} THEN <<>>
    ELSE LET m == CHOOSE x \in S : \A y \in S \ {x} : StrLess(x, y)
         IN  <<m>> \o SortHosts(S \ {m})

\* the sorted slice built from the map
Subdomains(hs) ==
    LET hosts == SortHosts(DOMAIN hs)
    IN  [i \in 1..Len(hosts) |->
            [Host |-> hosts[i], Sources |-> deduplicateSources(hs[hosts[i]])]]

\* the root entry keyed by the domain as given
RootSourcesAsGiven(d) == (d :> <<"root">>)

\* "Always include the root domain."
RootSources(d) == (ToLower(d) :> <<"root">>)

\* which source goroutines Enumerate starts
Started(s) == s # "axfr" \/ axfr

\* Enumerate up to wg.Wait: seed the map, start the goroutines
EnumerateEntryCore ==
    /\ enumPc = "idle"
    /\ enumPc' = "running"
    /\ hostSources' = RootSources(domain)
    /\ srcPc' = [s \in SourceNames |-> IF Started(s) THEN "running" ELSE "off"]
    /\ UNCHANGED <<srcRet, warnings, zoneTransfers, axfrRun, fetchRun, bruteRun, mu, enumRet>>

\* Enumerate called directly
EnumerateEntry ==
    /\ EnumerateEntryCore
    /\ UNCHANGED <<ctxDone, cfgVars, progressWarn, resolveVars, runVars,
                   scanVars, probeVars, callVars>>

\* the end of a source goroutine
SourceDone(s, ret) ==
    /\ srcPc' = [srcPc EXCEPT ![s] = "done"]
    /\ srcRet' = [srcRet EXCEPT ![s] = ret]
    /\ UNCHANGED <<ctxDone, cfgVars, enumPc, enumRet, resolveVars, runVars,
                   scanVars, probeVars, callVars>>

\* the crt.sh goroutine once CrtshEnumerate returned r
CrtshGoroutine(r) ==
    /\ IF r.err
       THEN /\ progressWarn' = progressWarn \cup {"crt.sh"}
            /\ UNCHANGED hostSources
       ELSE /\ hostSources' = MergeHosts(hostSources, r.hosts, "crt.sh")
            /\ UNCHANGED progressWarn
    /\ SourceDone("crt.sh", r)
    /\ UNCHANGED warnings

\* the crt.sh goroutine
CrtshSource ==
    /\ enumPc = "running" /\ srcPc["crt.sh"] = "running"
    /\ \E ret \in CrtshResults :
        /\ ret[1] = remote /\ ret[2] = domain
        /\ ctxDone => ret[3].err
        /\ CrtshGoroutine(ret[3])
    /\ UNCHANGED <<zoneTransfers, axfrRun, fetchRun, bruteRun, mu>>

\* the brute-force goroutine once BruteEnumerate returned r
BruteGoroutine(r) ==
    /\ IF r.err
       THEN /\ progressWarn' = progressWarn \cup {"brute-force"}
            /\ UNCHANGED hostSources
       ELSE /\ hostSources' = MergeHosts(hostSources, r.hosts, "brute")
            /\ UNCHANGED progressWarn
    /\ SourceDone("brute", r)
    /\ UNCHANGED warnings

\* the brute-force goroutine
BruteSource ==
    /\ enumPc = "running" /\ srcPc["brute"] = "running"
    /\ \E resolved \in Completions(Len(Words)) :
        /\ ctxDone => resolved = <<>>
        /\ BruteGoroutine(BruteEnumerate(resolved, domain))
    /\ UNCHANGED <<zoneTransfers, axfrRun, fetchRun, bruteRun, mu>>

\* the HackerTarget goroutine
HackertargetGoroutine(r) ==
    /\ IF r.err
       THEN /\ progressWarn' = progressWarn \cup {"hackertarget"}
            /\ warnings' = Append(warnings, Warning("hackertarget", "error"))
            /\ UNCHANGED hostSources
       ELSE /\ hostSources' = MergeHosts(hostSources, r.hosts, "hackertarget")
            /\ UNCHANGED <<progressWarn, warnings>>
    /\ SourceDone("hackertarget", r)

HackertargetSource ==
    /\ enumPc = "running" /\ srcPc["hackertarget"] = "running"
    /\ \E ret \in HackertargetResults :
        /\ ret[1] = remote /\ ret[2] = domain
        /\ ctxDone => ret[3].err
        /\ HackertargetGoroutine(ret[3])
    /\ UNCHANGED <<zoneTransfers, axfrRun, fetchRun, bruteRun, mu>>

\* the AlienVault OTX goroutine
OTXGoroutine(r) ==
    /\ IF r.err
       THEN /\ progressWarn' = progressWarn \cup {"otx"}
            /\ warnings' = Append(warnings, Warning("otx", "error"))
            /\ UNCHANGED hostSources
       ELSE /\ hostSources' = MergeHosts(hostSources, r.hosts, "otx")
            /\ UNCHANGED <<progressWarn, warnings>>
    /\ SourceDone("otx", r)

OTXSource ==
    /\ enumPc = "running" /\ srcPc["otx"] = "running"
    /\ \E ret \in OTXResults :
        /\ ret[1] = remote /\ ret[2] = domain
        /\ ctxDone => ret[3].err
        /\ OTXGoroutine(ret[3])
    /\ UNCHANGED <<zoneTransfers, axfrRun, fetchRun, bruteRun, mu>>

\* the fetch followed is running in its goroutine
Fetching(p) ==
    /\ enumPc = "running"
    /\ fetchRun.source \in RemoteSources
    /\ srcPc[fetchRun.source] = "running"
    /\ fetchRun.pc = p

\* the names the remote end has for the source followed
FetchNames == IF fetchRun.source = "crt.sh" THEN remote.cert ELSE remote.api

FetchFrame ==
    UNCHANGED <<ctxDone, cfgVars, enumPc, hostSources, srcPc, srcRet, warnings,
                zoneTransfers, axfrRun, bruteRun, mu, enumRet, progressWarn, resolveVars,
                runVars, scanVars, probeVars, callVars>>

\* the first request of the fetch: a body is returned, a rate-limit error is
\* returned, any other error leads to the backoff
FetchFirstRequest ==
    /\ Fetching("idle")
    /\ \E resp \in Answers(FetchNames, ctxDone) :
        LET r == doRequest(fetchRun.source, resp)
        IN  fetchRun' =
              [fetchRun EXCEPT
                  !.requests = Append(fetchRun.requests, resp),
                  !.err = r.err,
                  !.body = r.body,
                  !.pc = IF r.err = <<>> \/ RateLimited(fetchRun.source, r.err)
                         THEN "returned" ELSE "backoff"]
    /\ FetchFrame

\* the select of the backoff takes ctx.Done(): the fetch returns ctx.Err()
FetchBackoffCancelled ==
    /\ Fetching("backoff")
    /\ ctxDone
    /\ fetchRun' = [fetchRun EXCEPT !.pc = "returned", !.err = ContextCanceled]
    /\ FetchFrame

\* a select that can take the timer whatever ctx says
SelectsEither(done) == TRUE

\* the select of the backoff wakes on the timer only if ctx.Done() has not
\* been closed by then
SelectsTimer(done) == ~done

\* the select of the backoff takes the timer, ctx not being cancelled by then
FetchBackoffElapsed ==
    /\ Fetching("backoff")
    /\ SelectsTimer(ctxDone)
    /\ fetchRun' = [fetchRun EXCEPT !.pc = "retry"]
    /\ FetchFrame

\* the second request: whatever it gives is returned
FetchSecondRequest ==
    /\ Fetching("retry")
    /\ \E resp \in Answers(FetchNames, ctxDone) :
        LET r == doRequest(fetchRun.source, resp)
        IN  fetchRun' =
              [fetchRun EXCEPT
                  !.requests = Append(fetchRun.requests, resp),
                  !.err = r.err,
                  !.body = r.body,
                  !.pc = "returned"]
    /\ FetchFrame

\* the fetch has returned to CrtshEnumerate, HackertargetEnumerate or
\* OTXEnumerate, and that to its goroutine
FetchReturn ==
    /\ Fetching("returned")
    /\ LET fetch == [err |-> fetchRun.err # <<>>, body |-> fetchRun.body]
       IN  \/ /\ fetchRun.source = "crt.sh"
               /\ CrtshGoroutine(CrtshEnumerate(fetch, domain))
           \/ /\ fetchRun.source = "hackertarget"
               /\ HackertargetGoroutine(HackertargetEnumerate(fetch, domain))
           \/ /\ fetchRun.source = "otx"
               /\ OTXGoroutine(OTXEnumerate(fetch, domain))
    /\ UNCHANGED <<zoneTransfers, axfrRun, fetchRun, bruteRun, mu>>

\* number of successful transfers
SuccessCount(transfers) == Cardinality({i \in DOMAIN transfers : transfers[i].Success})

\* what AttemptZoneTransfers can return, over every outcome of the NS lookup
\* and of the transfers
ZoneTransferResults ==
    UNION {{<<rm, d, AttemptZoneTransfers(lookup, d)>> : lookup \in NSOutcomes(rm.zone)} :
              rm \in Remotes, d \in Domains}

\* the zone-transfer goroutine once AttemptZoneTransfers returned zt
ZoneTransferGoroutine(zt) ==
    LET n == SuccessCount(zt.Transfers)
    IN  /\ IF zt.err
           THEN /\ progressWarn' = progressWarn \cup {"zone transfer"}
                /\ warnings' = Append(warnings, Warning("zone transfer", "error"))
                /\ UNCHANGED <<hostSources, zoneTransfers>>
           ELSE /\ zoneTransfers' = zt.Transfers
                /\ hostSources' = MergeHosts(hostSources, zt.Hostnames, "axfr")
                /\ warnings' =
                     IF n > 0
                     THEN Append(warnings,
                             Warning("zone transfer enabled", <<n, Len(zt.Transfers)>>))
                     ELSE warnings
                /\ UNCHANGED progressWarn
        /\ SourceDone("axfr", [err |-> zt.err, hosts |-> zt.Hostnames])

\* the zone-transfer goroutine (started only with AXFR)
ZoneTransferSource ==
    /\ enumPc = "running" /\ srcPc["axfr"] = "running"
    /\ \E ret \in ZoneTransferResults :
        /\ ret[1] = remote /\ ret[2] = domain
        /\ ctxDone => ret[3].err
        /\ ZoneTransferGoroutine(ret[3])
    /\ UNCHANGED <<axfrRun, fetchRun, bruteRun, mu>>

\* the NS lookup of a zone served by up to MaxZoneNS nameservers: failed, or
\* the number of nameservers found
LookupNS ==
    {[err |-> TRUE, n |-> 0]} \cup {[err |-> FALSE, n |-> k] : k \in 0..MaxZoneNS}

\* the zone-transfer goroutine calls AttemptZoneTransfers: the NS lookup, given ctx
ZoneTransferLookup ==
    /\ enumPc = "running" /\ srcPc["axfr"] = "running"
    /\ axfrRun.pc = "idle"
    /\ \E lookup \in LookupNS :
        /\ ctxDone => lookup.err
        /\ axfrRun' =
             IF lookup.err \/ lookup.n = 0
             THEN [NotCalled EXCEPT !.pc = "returned", !.lookupErr = lookup.err,
                                    !.nilResult = TRUE, !.err = TRUE]
             ELSE [NotCalled EXCEPT !.pc = "loop", !.nameservers = lookup.n]
    /\ UNCHANGED <<ctxDone, cfgVars, enumPc, hostSources, srcPc, srcRet, warnings,
                   zoneTransfers, fetchRun, bruteRun, mu, enumRet, progressWarn, resolveVars,
                   runVars, scanVars, probeVars, callVars>>

\* the bookkeeping of the loop for successful transfers alone
SuccessRecorded(run, i, got) ==
    IF got.err THEN run
    ELSE [run EXCEPT
             !.Transfers = Append(run.Transfers,
                              [Nameserver |-> NSNames[i], Success |-> TRUE,
                               Records |-> Len(got.hostnames)]),
             !.Hostnames = AppendAllUnique(run.Hostnames, got.hostnames)]

\* the bookkeeping of the loop: the attempt on nameserver i is recorded
\* whatever attemptAXFR returned, its hostnames are added unless seen
TransferRecorded(run, i, got) ==
    [run EXCEPT
        !.Transfers = Append(run.Transfers,
                         [Nameserver |-> NSNames[i], Success |-> ~got.err,
                          Records |-> Len(got.hostnames)]),
        !.Hostnames = AppendAllUnique(run.Hostnames, got.hostnames)]

\* one turn of the loop over the nameservers: the cancellation check, the
\* transfer (which is not given ctx), the bookkeeping; after the last
\* nameserver the function returns
ZoneTransferAttempt ==
    /\ axfrRun.pc = "loop"
    /\ \E xfer \in AXFROutcomes(remote.zone) :
        LET i == Len(axfrRun.exchanges) + 1
            run == [axfrRun EXCEPT
                       !.pc = IF i = axfrRun.nameservers THEN "returned" ELSE "loop",
                       !.exchanges = Append(axfrRun.exchanges,
                                        [err |-> xfer.err, names |-> Range(xfer.rrs)])]
        IN  axfrRun' =
              IF ctxDone
              THEN [axfrRun EXCEPT !.pc = "returned", !.err = TRUE]
              ELSE TransferRecorded(run, i, attemptAXFR(xfer, domain))
    /\ UNCHANGED <<ctxDone, cfgVars, enumPc, hostSources, srcPc, srcRet, warnings,
                   zoneTransfers, fetchRun, bruteRun, mu, enumRet, progressWarn, resolveVars,
                   runVars, scanVars, probeVars, callVars>>

\* AttemptZoneTransfers has returned to the goroutine
ZoneTransferReturn ==
    /\ enumPc = "running" /\ srcPc["axfr"] = "running"
    /\ axfrRun.pc = "returned"
    /\ ZoneTransferGoroutine([err |-> axfrRun.err,
                              Transfers |-> axfrRun.Transfers,
                              Hostnames |-> axfrRun.Hostnames])
    /\ UNCHANGED <<axfrRun, fetchRun, bruteRun, mu>>

\* a wait that ends with the first goroutine to finish
FirstSourceDone == \E s \in SourceNames : srcPc[s] = "done"

\* wg.Wait: every goroutine that was started has called wg.Done
WaitGroupDone == \A s \in SourceNames : srcPc[s] \in {"done", "off"}

\* wg.Wait has returned: build the result
EnumerateReturnCore ==
    /\ enumPc = "running"
    /\ WaitGroupDone
    /\ enumPc' = "returned"
    /\ enumRet' = IF DOMAIN hostSources = {}
                  THEN [subs |-> <<>>, err |-> TRUE]
                  ELSE [subs |-> Subdomains(hostSources), err |-> FALSE]
    /\ UNCHANGED <<hostSources, srcPc, srcRet, warnings, zoneTransfers, axfrRun, fetchRun, bruteRun, mu>>

\* Enumerate returns to a direct caller
EnumerateReturn ==
    /\ pc = "init"
    /\ EnumerateReturnCore
    /\ UNCHANGED <<ctxDone, cfgVars, progressWarn, resolveVars, runVars,
                   scanVars, probeVars, callVars>>

\* the signal handler of main cancels the context
Cancel ==
    /\ ~ctxDone
    /\ ctxDone' = TRUE
    /\ UNCHANGED <<cfgVars, enumVars, progressWarn, resolveVars, runVars,
                   scanVars, probeVars, callVars>>

----------------------------------------------------------------------------
(* DNSResolve and checkDangling                                            *)

\* Go's nil
Nil == [nil |-> TRUE]

danglingPatterns ==
    << <<".", "s", "3", ".", "a", "m", "a", "z", "o", "n", "a", "w", "s", ".", "c", "o", "m">>,
       <<".", "a", "z", "u", "r", "e", "w", "e", "b", "s", "i", "t", "e", "s", ".", "n", "e", "t">>,
       <<".", "g", "i", "t", "h", "u", "b", ".", "i", "o">>,
       <<".", "h", "e", "r", "o", "k", "u", "a", "p", "p", ".", "c", "o", "m">>,
       <<".", "c", "l", "o", "u", "d", "f", "r", "o", "n", "t", ".", "n", "e", "t">>,
       <<".", "e", "l", "a", "s", "t", "i", "c", "b", "e", "a", "n", "s", "t", "a", "l", "k", ".", "c", "o", "m">>,
       <<".", "t", "r", "a", "f", "f", "i", "c", "m", "a", "n", "a", "g", "e", "r", ".", "n", "e", "t">>,
       <<".", "b", "l", "o", "b", ".", "c", "o", "r", "e", ".", "w", "i", "n", "d", "o", "w", "s", ".", "n", "e", "t">>,
       <<".", "a", "z", "u", "r", "e", "e", "d", "g", "e", ".", "n", "e", "t">>,
       <<".", "p", "a", "n", "t", "h", "e", "o", "n", "s", "i", "t", "e", ".", "i", "o">>,
       <<".", "n", "e", "t", "l", "i", "f", "y", ".", "a", "p", "p">>,
       <<".", "g", "h", "o", "s", "t", ".", "i", "o">>,
       <<".", "m", "y", "s", "h", "o", "p", "i", "f", "y", ".", "c", "o", "m">>,
       <<".", "s", "u", "r", "g", "e", ".", "s", "h">> >>

\* error values: nil, a *net.DNSError (with IsNotFound), or another error
NilErr == [nil |-> TRUE, isDNS |-> FALSE, isNotFound |-> FALSE, text |-> <<>>]
NotFoundErr ==
    [nil |-> FALSE, isDNS |-> TRUE, isNotFound |-> TRUE, text |-> <<"n", "o", " ", "s", "u", "c", "h", " ", "h", "o", "s", "t">>]
ServFailErr ==
    [nil |-> FALSE, isDNS |-> TRUE, isNotFound |-> FALSE,
     text |-> <<"s", "e", "r", "v", "e", "r", " ", "m", "i", "s", "b", "e", "h", "a", "v", "i", "n", "g">>]
OtherErr == [nil |-> FALSE, isDNS |-> FALSE, isNotFound |-> FALSE, text |-> <<"o", "t", "h", "e", "r">>]

\* an error that is not a *net.DNSError, with its text
PlainErr(text) == [nil |-> FALSE, isDNS |-> FALSE, isNotFound |-> FALSE, text |-> text]

\* a *net.DNSError for a lookup that timed out
TimeoutErr ==
    [nil |-> FALSE, isDNS |-> TRUE, isNotFound |-> FALSE, text |-> <<"i", "/", "o", " ", "t", "i", "m", "e", "o", "u", "t">>]

\* the texts classifyDNSError looks for
noSuchHost == <<"n", "o", " ", "s", "u", "c", "h", " ", "h", "o", "s", "t">>
serverMisbehaving == <<"s", "e", "r", "v", "e", "r", " ", "m", "i", "s", "b", "e", "h", "a", "v", "i", "n", "g">>

\* a classification by the text alone, whatever the type of the error
classifyByText(err) ==
    IF err.nil THEN ""
    ELSE IF Contains(ToLower(err.text), noSuchHost) THEN "NXDOMAIN"
    ELSE IF Contains(ToLower(err.text), serverMisbehaving) THEN "SERVFAIL"
    ELSE ""

classifyDNSError(err) ==
    IF err.nil THEN ""
    ELSE IF err.isDNS THEN (IF err.isNotFound THEN "NXDOMAIN" ELSE "SERVFAIL")
    ELSE LET errStr == ToLower(err.text)
         IN  IF Contains(errStr, noSuchHost) THEN "NXDOMAIN"
             ELSE IF Contains(errStr, serverMisbehaving) THEN "SERVFAIL"
             ELSE ""

\* checkDangling: the candidate, or no element for nil
checkDangling(host, cname, lookupErr) ==
    LET cnameLower == ToLower(cname)
        matchesPattern ==
            \E i \in DOMAIN danglingPatterns : HasSuffix(cnameLower, danglingPatterns[i])
        status == classifyDNSError(lookupErr)
    IN  IF ~matchesPattern \/ status = "" THEN <<>>
        ELSE << [Host |-> host, CNAME |-> cname, Status |-> status] >>

deduplicateStrings(ss) == AppendAllUnique(<<>>, ss)

\* what the resolver answers for a name the DNS does not hold
NoSuchHost ==
    [cname |-> [err |-> TRUE, name |-> <<>>], addr |-> [err |-> NotFoundErr, ips |-> <<>>]]

\* the answers of LookupCNAME and LookupHost for host
Lookup(host) == IF host \in DOMAIN dns THEN dns[host] ELSE NoSuchHost

\* checkDangling called on its own, as its test calls it
CheckDanglingReturn ==
    /\ callFn = "checkDangling" /\ callRet = Nil
    /\ callRet' = [out |-> checkDangling(callArgs.host, callArgs.cname, callArgs.err)]
    /\ UNCHANGED <<callFn, callArgs>>
    /\ UNCHANGED <<ctxDone, cfgVars, enumVars, progressWarn, resolveVars, scanVars,
                   probeVars, runVars>>

\* the CNAME kept whatever the host
AnyCNAME(host, cname) == cname

\* record.CNAME: the normalised CNAME unless it is the host itself or empty
RecordCNAME(host, cname) == IF cname # host /\ cname # <<>> THEN cname ELSE <<>>

\* an iteration without the "continue" after a failed lookup: the record is
\* appended whether or not the addresses resolved
ResolveHostNoContinue(host, ans) ==
    LET cname == IF ans.cname.err THEN <<>>
                 ELSE TrimSuffix(ToLower(ans.cname.name), Dot)
        recCNAME == RecordCNAME(host, cname)
    IN  [records |-> << [Host |-> host,
                         IPs |-> deduplicateStrings(ans.addr.ips),
                         CNAME |-> recCNAME] >>,
         danglings |-> IF ~ans.addr.err.nil /\ recCNAME # <<>>
                       THEN checkDangling(host, recCNAME, ans.addr.err)
                       ELSE <<>>]

\* one iteration of the worker loop after the cancellation check: the record
\* appended to results and the candidate appended to danglings, if any
ResolveHost(host, ans) ==
    LET cname == IF ans.cname.err THEN <<>>
                 ELSE TrimSuffix(ToLower(ans.cname.name), Dot)
        recCNAME == RecordCNAME(host, cname)
    IN  IF ~ans.addr.err.nil
        THEN [records |-> <<>>,
              danglings |-> IF recCNAME # <<>>
                            THEN checkDangling(host, recCNAME, ans.addr.err)
                            ELSE <<>>]
        ELSE [records |-> << [Host |-> host,
                              IPs |-> deduplicateStrings(ans.addr.ips),
                              CNAME |-> recCNAME] >>,
              danglings |-> <<>>]

\* a worker of a pool: at the head of its loop, inside a network call for an
\* item, or returned
AtLoopHead == [st |-> "run", item |-> <<>>]
InCall(item) == [st |-> "call", item |-> item]
Exited == [st |-> "exit", item |-> <<>>]

\* the error of a lookup abandoned because ctx was cancelled
CanceledErr ==
    [nil |-> FALSE, isDNS |-> TRUE, isNotFound |-> FALSE,
     text |-> <<"o", "p", "e", "r", "a", "t", "i", "o", "n", " ", "w", "a", "s", " ", "c", "a", "n", "c", "e", "l", "e", "d">>]

\* what LookupCNAME and LookupHost, both given ctx, can return for host: their
\* own answers, or, with ctx cancelled while they run, the cancellation error
\* from LookupHost alone or from both
LookupOutcomes(host, done) ==
    IF done
    THEN {Lookup(host),
          [Lookup(host) EXCEPT !.addr = [err |-> CanceledErr, ips |-> <<>>]],
          [cname |-> [err |-> TRUE, name |-> <<>>],
           addr |-> [err |-> CanceledErr, ips |-> <<>>]]}
    ELSE {Lookup(host)}

\* DNSResolve up to wg.Wait: fill and close the channel, start the workers
DNSResolveEntry(hosts, c) ==
    /\ work' = hosts
    /\ workerPc' = [i \in 1..c |-> AtLoopHead]
    /\ dnsResults' = <<>>
    /\ danglings' = <<>>
    /\ lookupLog' = <<>>

\* a DNSResolve worker takes the next host from the channel, checks ctx and
\* starts the lookups
ResolveWorker(i) ==
    /\ workerPc[i] = AtLoopHead
    /\ IF work = <<>>
       THEN /\ workerPc' = [workerPc EXCEPT ![i] = Exited]
            /\ UNCHANGED work
       ELSE /\ work' = Tail(work)
            /\ workerPc' = [workerPc EXCEPT ![i] = IF ctxDone THEN Exited
                                                   ELSE InCall(Head(work))]
    /\ UNCHANGED <<dnsResults, danglings, lookupLog>>
    /\ UNCHANGED <<ctxDone, cfgVars, enumVars, progressWarn, scanVars, probeVars,
                   runVars, callVars>>

\* the lookups of a DNSResolve worker return; it appends what they gave
ResolveLookup(i) ==
    /\ workerPc[i].st = "call"
    /\ \E ans \in LookupOutcomes(workerPc[i].item, ctxDone) :
        LET r == ResolveHost(workerPc[i].item, ans)
        IN  /\ dnsResults' = dnsResults \o r.records
            /\ danglings' = danglings \o r.danglings
            /\ lookupLog' = Append(lookupLog, [host |-> workerPc[i].item, answer |-> ans])
    /\ workerPc' = [workerPc EXCEPT ![i] = AtLoopHead]
    /\ UNCHANGED work
    /\ UNCHANGED <<ctxDone, cfgVars, enumVars, progressWarn, scanVars, probeVars,
                   runVars, callVars>>

\* wg.Wait of DNSResolve: every worker has returned
ResolveWorkersDone == \A i \in DOMAIN workerPc : workerPc[i] = Exited

\* DNSResolve called on its own
CallDNSResolve(hosts, c) ==
    /\ callFn = ""
    /\ DNSResolveEntry(hosts, c)
    /\ callFn' = "DNSResolve"
    /\ callArgs' = [ctx |-> ctxDone, hosts |-> hosts, concurrency |-> c]
    /\ UNCHANGED callRet
    /\ UNCHANGED <<ctxDone, cfgVars, enumVars, progressWarn, scanVars, probeVars, runVars>>

\* "wg.Wait(); return results, danglings, nil"
DNSResolveReturn ==
    /\ callFn = "DNSResolve" /\ callRet = Nil
    /\ ResolveWorkersDone
    /\ callRet' = [results |-> dnsResults, danglings |-> danglings, err |-> FALSE]
    /\ UNCHANGED <<callFn, callArgs>>
    /\ UNCHANGED <<ctxDone, cfgVars, enumVars, progressWarn, resolveVars, scanVars,
                   probeVars, runVars>>

----------------------------------------------------------------------------
(* PortScan                                                                *)

\* the work items of one record, built from its last address
LastAddressTargets(r, ports) ==
    IF Len(r.IPs) = 0 THEN <<>>
    ELSE [k \in 1..Len(ports) |-> [host |-> r.Host, ip |-> r.IPs[Len(r.IPs)], port |-> ports[k]]]

\* the work items of one record: its first address with every port, in order
RecordTargets(r, ports) ==
    IF Len(r.IPs) = 0 THEN <<>>
    ELSE [k \in 1..Len(ports) |-> [host |-> r.Host, ip |-> r.IPs[1], port |-> ports[k]]]

\* "Build work items: host x port combinations."
RECURSIVE Targets(_, _)
Targets(records, ports) ==
    IF records = <<>> THEN <<>>
    ELSE RecordTargets(Head(records), ports) \o Targets(Tail(records), ports)

\* a worker that goes on whatever ctx says
GoesOn(done) == FALSE

\* the select on ctx.Done() at the head of a worker's loop: return if cancelled
Stops(done) == done

\* what dialer.DialContext, given ctx, can return for a target (TRUE: a
\* connection): the network's own answer, or, with ctx cancelled while it
\* runs, the cancellation error
DialOutcomes(t, done) ==
    LET open == (<<t.ip, t.port>> \in tcp)
    IN  IF done THEN {open, FALSE} ELSE {open}

\* PortScan up to wg.Wait: build the targets, fill the channel, start the workers
PortScanEntry(records, ports, c) ==
    /\ scanWork' = Targets(records, ports)
    /\ scanPc' = [i \in 1..c |-> AtLoopHead]
    /\ scanResults' = <<>>
    /\ dialLog' = <<>>

\* a PortScan worker takes the next target from the channel, checks ctx and
\* starts the dial
ScanWorker(i) ==
    /\ scanPc[i] = AtLoopHead
    /\ IF scanWork = <<>>
       THEN /\ scanPc' = [scanPc EXCEPT ![i] = Exited]
            /\ UNCHANGED <<scanWork, dialLog>>
       ELSE /\ scanWork' = Tail(scanWork)
            /\ IF Stops(ctxDone)
               THEN /\ scanPc' = [scanPc EXCEPT ![i] = Exited]
                    /\ UNCHANGED dialLog
               ELSE /\ scanPc' = [scanPc EXCEPT ![i] = InCall(Head(scanWork))]
                    /\ dialLog' = Append(dialLog, [ev |-> "dial", target |-> Head(scanWork),
                                                   ctx |-> ctxDone, ok |-> FALSE])
    /\ UNCHANGED scanResults
    /\ UNCHANGED <<ctxDone, cfgVars, enumVars, progressWarn, resolveVars, probeVars,
                   runVars, callVars>>

\* the dial of a PortScan worker returns; a connection is recorded
ScanDial(i) ==
    /\ scanPc[i].st = "call"
    /\ LET t == scanPc[i].item
       IN  \E ok \in DialOutcomes(t, ctxDone) :
             /\ scanResults' = IF ok
                               THEN Append(scanResults,
                                           [Host |-> t.host, IP |-> t.ip, Port |-> t.port])
                               ELSE scanResults
             /\ dialLog' = Append(dialLog, [ev |-> "done", target |-> t,
                                            ctx |-> ctxDone, ok |-> ok])
    /\ scanPc' = [scanPc EXCEPT ![i] = AtLoopHead]
    /\ UNCHANGED scanWork
    /\ UNCHANGED <<ctxDone, cfgVars, enumVars, progressWarn, resolveVars, probeVars,
                   runVars, callVars>>

\* wg.Wait of PortScan: every worker has returned
ScanWorkersDone == \A i \in DOMAIN scanPc : scanPc[i] = Exited

\* PortScan called on its own, as its tests call it
CallPortScan(records, ports, c) ==
    /\ callFn = ""
    /\ PortScanEntry(records, ports, c)
    /\ callFn' = "PortScan"
    /\ callArgs' = [ctx |-> ctxDone, records |-> records, ports |-> ports, concurrency |-> c]
    /\ UNCHANGED callRet
    /\ UNCHANGED <<ctxDone, cfgVars, enumVars, progressWarn, resolveVars, probeVars, runVars>>

\* "wg.Wait(); return results, nil"
PortScanReturn ==
    /\ callFn = "PortScan" /\ callRet = Nil
    /\ ScanWorkersDone
    /\ callRet' = [results |-> scanResults, err |-> FALSE]
    /\ UNCHANGED <<callFn, callArgs>>
    /\ UNCHANGED <<ctxDone, cfgVars, enumVars, progressWarn, resolveVars, scanVars,
                   probeVars, runVars>>

----------------------------------------------------------------------------
(* HTTPProbe                                                               *)

maxRedirects == 5

tlsFirstPorts == {443, 8443, 9443, 6443, 1443, 4443}

\* what a server does with a request: nothing (no connection, no HTTP), or a
\* chain of redirects ending in a response with a status code
NoResponse == [answers |-> FALSE, redirects |-> 0, status |-> 0]
Responds(redirects, status) == [answers |-> TRUE, redirects |-> redirects, status |-> status]

\* the client's CheckRedirect, given the number of requests made so far
CheckRedirect(via) == IF via >= maxRedirects THEN "too many redirects" ELSE ""

\* client.Do on a server answering with a chain of redirects: via requests
\* made so far, left redirects still ahead; TRUE when it ends in a response
RECURSIVE FollowRedirects(_, _)
FollowRedirects(left, via) ==
    IF left = 0 THEN TRUE
    ELSE IF CheckRedirect(via) # "" THEN FALSE
    ELSE FollowRedirects(left - 1, via + 1)

\* client.Do: the response, or no response on an error
ClientDo(server) ==
    IF server.answers /\ FollowRedirects(server.redirects, 1)
    THEN [got |-> TRUE, status |-> server.status]
    ELSE [got |-> FALSE, status |-> 0]

\* the server behind a URL
Server(host, port, scheme) ==
    IF <<host, port, scheme>> \in DOMAIN web THEN web[<<host, port, scheme>>] ELSE NoResponse

\* always the unencrypted scheme first
PlainFirst(port) == <<"http", "https">>

\* the order in which probePort tries the schemes
Schemes(port) == IF port \in tlsFirstPorts THEN <<"https", "http">> ELSE <<"http", "https">>

\* every scheme is tried, a response or not
TriesAll(schemes, got) == Tail(schemes)

\* the schemes probePort still tries after one scheme's outcome: none once a
\* service was made ("if svc != nil { return svc, pd }")
SchemesLeft(schemes, got) == IF got THEN <<>> ELSE Tail(schemes)

\* what client.Do, on a request built with ctx, can return: nothing when ctx
\* was cancelled before the request started; with ctx cancelled while it runs,
\* its own outcome or nothing; its own outcome otherwise
RequestOutcomes(pr, scheme, doneAtStart, done) ==
    LET own == ClientDo(Server(pr.Host, pr.Port, scheme))
        none == [got |-> FALSE, status |-> 0]
    IN  IF doneAtStart THEN {none} ELSE IF done THEN {own, none} ELSE {own}

\* a service that does not carry the address and the port it was found on
ServiceWithoutEndpoint(pr, scheme, status) ==
    [URL |-> <<scheme, pr.Host, pr.Port>>, Host |-> pr.Host, IP |-> "", Port |-> 0,
     Scheme |-> scheme, StatusCode |-> status, Technologies |-> <<>>]

\* the HTTPService probeURL builds from a response
Service(pr, scheme, status) ==
    [URL |-> <<scheme, pr.Host, pr.Port>>, Host |-> pr.Host, IP |-> pr.IP, Port |-> pr.Port,
     Scheme |-> scheme, StatusCode |-> status, Technologies |-> <<>>]

\* HTTPProbe up to wg.Wait: fill the channel, start the workers
HTTPProbeEntry(openPorts, c) ==
    /\ probeWork' = openPorts
    /\ probePc' = [i \in 1..c |-> AtLoopHead]
    /\ probeResults' = <<>>
    /\ requestLog' = <<>>

\* an HTTPProbe worker takes the next port from the channel, checks ctx and
\* enters probePort: the request of the first scheme starts
ProbeWorker(i) ==
    /\ probePc[i] = AtLoopHead
    /\ IF probeWork = <<>>
       THEN /\ probePc' = [probePc EXCEPT ![i] = Exited]
            /\ UNCHANGED probeWork
       ELSE /\ probeWork' = Tail(probeWork)
            /\ probePc' = [probePc EXCEPT ![i] =
                   IF Stops(ctxDone) THEN Exited
                   ELSE InCall([pr |-> Head(probeWork),
                                schemes |-> Schemes(Head(probeWork).Port),
                                ctx |-> ctxDone])]
    /\ UNCHANGED <<probeResults, requestLog>>
    /\ UNCHANGED <<ctxDone, cfgVars, enumVars, progressWarn, resolveVars, scanVars,
                   runVars, callVars>>

\* the request of an HTTPProbe worker returns: a response makes the service
\* and ends probePort; with none, the next scheme's request starts, if any
ProbeRequest(i) ==
    /\ probePc[i].st = "call"
    /\ LET it == probePc[i].item
           scheme == Head(it.schemes)
       IN  \E out \in RequestOutcomes(it.pr, scheme, it.ctx, ctxDone) :
             /\ requestLog' = Append(requestLog, [pr |-> it.pr, scheme |-> scheme,
                                                  got |-> out.got, status |-> out.status])
             /\ probeResults' = IF out.got
                                THEN Append(probeResults, Service(it.pr, scheme, out.status))
                                ELSE probeResults
             /\ probePc' = [probePc EXCEPT ![i] =
                    IF SchemesLeft(it.schemes, out.got) = <<>> THEN AtLoopHead
                    ELSE InCall([pr |-> it.pr, schemes |-> SchemesLeft(it.schemes, out.got),
                                 ctx |-> ctxDone])]
    /\ UNCHANGED probeWork
    /\ UNCHANGED <<ctxDone, cfgVars, enumVars, progressWarn, resolveVars, scanVars,
                   runVars, callVars>>

\* wg.Wait of HTTPProbe: every worker has returned
ProbeWorkersDone == \A i \in DOMAIN probePc : probePc[i] = Exited

\* HTTPProbe called on its own, as its tests call it
CallHTTPProbe(openPorts, c) ==
    /\ callFn = ""
    /\ HTTPProbeEntry(openPorts, c)
    /\ callFn' = "HTTPProbe"
    /\ callArgs' = [ctx |-> ctxDone, openPorts |-> openPorts, concurrency |-> c]
    /\ UNCHANGED callRet
    /\ UNCHANGED <<ctxDone, cfgVars, enumVars, progressWarn, resolveVars, scanVars, runVars>>

\* "wg.Wait(); return result, nil"
HTTPProbeReturn ==
    /\ callFn = "HTTPProbe" /\ callRet = Nil
    /\ ProbeWorkersDone
    /\ callRet' = [services |-> probeResults, err |-> FALSE]
    /\ UNCHANGED <<callFn, callArgs>>
    /\ UNCHANGED <<ctxDone, cfgVars, enumVars, progressWarn, resolveVars, scanVars,
                   probeVars, runVars>>

----------------------------------------------------------------------------
(* engine.Run                                                              *)

totalStages == 5

\* cfg.Ports and cfg.Timeout of the run
CfgPorts == <<80, 443>>
CfgTimeout == "2s"

ZeroSummary ==
    [SubdomainsFound |-> 0, LiveHosts |-> 0, OpenPortCount |-> 0,
     HTTPServiceCount |-> 0, TechCount |-> 0, DanglingCNAMEs |-> 0,
     ZoneTransferCount |-> 0]

\* the ScanResult Run starts from
NewResult(target) ==
    [Target |-> target, Subdomains |-> <<>>, DNSRecords |-> <<>>,
     OpenPorts |-> <<>>, HTTPServices |-> <<>>, DanglingCNAMEs |-> <<>>,
     ZoneTransfers |-> <<>>, Warnings |-> <<>>, Summary |-> ZeroSummary]

\* an entry of the trace; a call records its arguments, the state of ctx first
Event(kind, stage, data) == [ev |-> kind, stage |-> stage, data |-> data]
StageEvent(num) == Event("stage", "", <<num, totalStages>>)
CallEvent(stage, args) == Event("call", stage, args)
ReturnEvent(stage, out) == Event("ret", stage, out)
SummaryEvent == Event("summary", "", <<>>)

\* the enumeration is fatal on an error alone
EnumerationFatalOnError(subs, err) == err

\* Run gives up after the enumeration: an error, or no subdomain
EnumerationFatal(subs, err) == err \/ Len(subs) = 0

\* the hosts handed to the resolver, first one left out
HostsButFirst(subs) == [i \in 1..(Len(subs) - 1) |-> subs[i + 1].Host]

\* "Collect all hostnames for DNS resolution."
Hosts(subs) == [i \in 1..Len(subs) |-> subs[i].Host]

\* the number of records, with or without an address
RecordCount(records) == Len(records)

\* liveHostCount: the records with at least one address
LiveHostCount(records) ==
    Cardinality({i \in DOMAIN records : Len(records[i].IPs) > 0})

\* Go's integer division, truncating toward zero
Quot(a, b) == IF a >= 0 THEN a \div b ELSE -((-a) \div b)

\* httpConcurrency
HTTPConcurrency(c) == IF Quot(c, 2) < 1 THEN 1 ELSE Quot(c, 2)

\* a summary counting every DNS record as a live host
buildSummaryPerRecord(res) ==
    [SubdomainsFound |-> Len(res.Subdomains),
     LiveHosts |-> Len(res.DNSRecords),
     OpenPortCount |-> Len(res.OpenPorts),
     HTTPServiceCount |-> Len(res.HTTPServices),
     TechCount |-> Cardinality(UNION {{res.HTTPServices[i].Technologies[j].Name :
                                          j \in DOMAIN res.HTTPServices[i].Technologies} :
                                      i \in DOMAIN res.HTTPServices}),
     DanglingCNAMEs |-> Len(res.DanglingCNAMEs),
     ZoneTransferCount |-> SuccessCount(res.ZoneTransfers)]

buildSummary(res) ==
    LET liveHosts == {res.DNSRecords[i].Host :
                         i \in {k \in DOMAIN res.DNSRecords : Len(res.DNSRecords[k].IPs) > 0}}
        techSet == UNION {{res.HTTPServices[i].Technologies[j].Name :
                              j \in DOMAIN res.HTTPServices[i].Technologies} :
                          i \in DOMAIN res.HTTPServices}
    IN  [SubdomainsFound |-> Len(res.Subdomains),
         LiveHosts |-> Cardinality(liveHosts),
         OpenPortCount |-> Len(res.OpenPorts),
         HTTPServiceCount |-> Len(res.HTTPServices),
         TechCount |-> Cardinality(techSet),
         DanglingCNAMEs |-> Len(res.DanglingCNAMEs),
         ZoneTransferCount |-> SuccessCount(res.ZoneTransfers)]

\* mockFingerprinter.Fingerprint: every service gets the mock's technologies
Fingerprint(services) ==
    [i \in 1..Len(services) |-> [services[i] EXCEPT !.Technologies = mocks.fp.techs]]

\* Run up to the call of the enumerator
RunStart ==
    /\ pc = "init" /\ enumPc = "idle"
    /\ pc' = "enumerate"
    /\ result' = NewResult(domain)
    /\ trace' = <<StageEvent(1), CallEvent("enumerate", <<ctxDone, domain, concurrency>>)>>
    /\ IF stages.Enumerator = "real" THEN EnumerateEntryCore ELSE UNCHANGED enumVars
    /\ UNCHANGED <<ctxDone, cfgVars, progressWarn, resolveVars, runRet,
                   scanVars, probeVars, callVars>>

\* Run giving up with ctx.Err() when the context is cancelled at its end
ReturnUnlessCancelled(res, tr, warned) ==
    LET final == [res EXCEPT !.Summary = buildSummary(res)]
    IN  /\ result' = final
        /\ runRet' = IF ctxDone THEN [result |-> Nil, err |-> "context canceled"]
                      ELSE [result |-> final, err |-> ""]
        /\ trace' = Append(tr, SummaryEvent)
        /\ progressWarn' = warned
        /\ pc' = "done"

\* Run returns (result, nil) after computing the summary
ReturnResult(res, tr, warned) ==
    LET final == [res EXCEPT !.Summary = buildSummary(res)]
    IN  /\ result' = final
        /\ runRet' = [result |-> final, err |-> ""]
        /\ trace' = Append(tr, SummaryEvent)
        /\ progressWarn' = warned
        /\ pc' = "done"

\* Run from the return of the enumerator to the call of the resolver
RunAfterEnumerate(subs, err, zts, warns) ==
    LET tr == Append(trace, ReturnEvent("enumerate", [out |-> subs, err |-> err]))
    IN  IF EnumerationFatal(subs, err)
        THEN /\ pc' = "done"
             /\ runRet' = [result |-> Nil,
                           err |-> IF err THEN "subdomain enumeration failed"
                                   ELSE "no subdomains discovered"]
             /\ trace' = tr
             /\ UNCHANGED <<result, resolveVars>>
        ELSE /\ pc' = "resolve"
             /\ result' = [result EXCEPT !.Subdomains = subs,
                                         !.ZoneTransfers = zts,
                                         !.Warnings = warns]
             /\ trace' = tr \o <<StageEvent(2),
                                 CallEvent("resolve", <<ctxDone, Hosts(subs), concurrency>>)>>
             /\ IF stages.Resolver = "real"
                THEN DNSResolveEntry(Hosts(subs), concurrency)
                ELSE UNCHANGED resolveVars
             /\ UNCHANGED runRet

\* Run from the return of the resolver to the call of the scanner
RunAfterResolve(records, dangling, err) ==
    LET tr == Append(trace, ReturnEvent("resolve",
                        [out |-> <<records, dangling>>, err |-> err]))
        warned == IF err THEN progressWarn \cup {"DNS resolution error"} ELSE progressWarn
        res == [result EXCEPT !.DNSRecords = records, !.DanglingCNAMEs = dangling]
    IN  IF LiveHostCount(records) = 0
        THEN /\ ReturnResult(res, tr, warned \cup {"No live hosts found"})
             /\ UNCHANGED scanVars
        ELSE /\ pc' = "scan"
             /\ IF stages.Scanner = "real"
                THEN PortScanEntry(records, CfgPorts, concurrency)
                ELSE UNCHANGED scanVars
             /\ result' = res
             /\ trace' = tr \o <<StageEvent(3),
                                 CallEvent("scan", <<ctxDone, records, CfgPorts, concurrency,
                                                   CfgTimeout>>)>>
             /\ progressWarn' = warned
             /\ UNCHANGED runRet

\* Run from the return of the scanner to the call of the prober
RunAfterScan(openPorts, err) ==
    LET tr == Append(trace, ReturnEvent("scan", [out |-> openPorts, err |-> err]))
        warned == IF err THEN progressWarn \cup {"Port scan error"} ELSE progressWarn
        res == [result EXCEPT !.OpenPorts = openPorts]
    IN  IF Len(openPorts) = 0
        THEN /\ ReturnResult(res, tr, warned \cup {"No open ports found"})
             /\ UNCHANGED probeVars
        ELSE /\ pc' = "probe"
             /\ IF stages.Prober = "real"
                THEN HTTPProbeEntry(openPorts, HTTPConcurrency(concurrency))
                ELSE UNCHANGED probeVars
             /\ result' = res
             /\ trace' = tr \o <<StageEvent(4),
                                 CallEvent("probe", <<ctxDone, openPorts,
                                                    HTTPConcurrency(concurrency), CfgTimeout>>)>>
             /\ progressWarn' = warned
             /\ UNCHANGED runRet

\* Run from the return of the prober to its own return, fingerprinting included
RunAfterProbe(services, err) ==
    LET tr == Append(trace, ReturnEvent("probe", [out |-> services, err |-> err]))
        warned == IF err THEN progressWarn \cup {"HTTP probe error"} ELSE progressWarn
    IN  IF Len(services) > 0
        THEN LET fingerprinted == Fingerprint(services)
             IN  ReturnResult([result EXCEPT !.HTTPServices = fingerprinted],
                              tr \o <<StageEvent(5),
                                      CallEvent("fingerprint", <<services>>),
                                      ReturnEvent("fingerprint",
                                          [out |-> fingerprinted, err |-> FALSE])>>,
                              warned)
        ELSE ReturnResult([result EXCEPT !.HTTPServices = services], tr, warned)

\* the real Enumerator returns to Run
EnumerateReturnsToRun ==
    /\ pc = "enumerate" /\ stages.Enumerator = "real"
    /\ EnumerateReturnCore
    /\ RunAfterEnumerate(enumRet'.subs, enumRet'.err, zoneTransfers, warnings)
    /\ UNCHANGED <<ctxDone, cfgVars, progressWarn, scanVars, probeVars, callVars>>

\* the real Resolver returns to Run
ResolveReturnsToRun ==
    /\ pc = "resolve" /\ stages.Resolver = "real"
    /\ ResolveWorkersDone
    /\ RunAfterResolve(dnsResults, danglings, FALSE)
    /\ UNCHANGED <<ctxDone, cfgVars, enumVars, resolveVars, probeVars, callVars>>

\* the real Scanner returns to Run
ScanReturnsToRun ==
    /\ pc = "scan" /\ stages.Scanner = "real"
    /\ ScanWorkersDone
    /\ RunAfterScan(scanResults, FALSE)
    /\ UNCHANGED <<ctxDone, cfgVars, enumVars, resolveVars, scanVars, callVars>>

\* the real Prober returns to Run
ProbeReturnsToRun ==
    /\ pc = "probe" /\ stages.Prober = "real"
    /\ ProbeWorkersDone
    /\ RunAfterProbe(probeResults, FALSE)
    /\ UNCHANGED <<ctxDone, cfgVars, enumVars, resolveVars, scanVars, probeVars, callVars>>

\* mockEnumerator.Enumerate returns to Run
MockEnumerate ==
    /\ pc = "enumerate" /\ stages.Enumerator = "mock"
    /\ RunAfterEnumerate(mocks.enum.subdomains, mocks.enum.err,
                         mocks.enum.zoneTransfers, mocks.enum.warnings)
    /\ UNCHANGED <<ctxDone, cfgVars, enumVars, progressWarn, scanVars, probeVars, callVars>>

\* mockResolver.Resolve returns to Run
MockResolve ==
    /\ pc = "resolve" /\ stages.Resolver = "mock"
    /\ RunAfterResolve(mocks.res.records, mocks.res.dangling, mocks.res.err)
    /\ UNCHANGED <<ctxDone, cfgVars, enumVars, resolveVars, probeVars, callVars>>

\* mockScanner.Scan returns to Run
MockScan ==
    /\ pc = "scan" /\ stages.Scanner = "mock"
    /\ RunAfterScan(mocks.scan.ports, mocks.scan.err)
    /\ UNCHANGED <<ctxDone, cfgVars, enumVars, resolveVars, scanVars, callVars>>

\* mockProber.Probe returns to Run
MockProbe ==
    /\ pc = "probe" /\ stages.Prober = "mock"
    /\ RunAfterProbe(mocks.probe.services, mocks.probe.err)
    /\ UNCHANGED <<ctxDone, cfgVars, enumVars, resolveVars, scanVars, probeVars, callVars>>

----------------------------------------------------------------------------
(* The stages of the engine tests                                          *)

RootHost == LowerDomain
WHost == <<"w", ".", "x", ".", "i", "o">>

Sub(host, sources) == [Host |-> host, Sources |-> sources]
DNSResult(host, ips, cname) == [Host |-> host, IPs |-> ips, CNAME |-> cname]
PortResult(host, ip, port) == [Host |-> host, IP |-> ip, Port |-> port]
HTTPService(url) == [URL |-> url, Technologies |-> <<>>]
Technology(name) == [Name |-> name]

TwoSubdomains == <<Sub(RootHost, <<"root">>), Sub(WHost, <<"crt.sh", "brute">>)>>

\* mockEnumerator values
MockEnumerators ==
    { [subdomains |-> <<>>, err |-> TRUE, zoneTransfers |-> <<>>, warnings |-> <<>>],
      [subdomains |-> <<>>, err |-> FALSE, zoneTransfers |-> <<>>, warnings |-> <<>>],
      [subdomains |-> TwoSubdomains, err |-> TRUE, zoneTransfers |-> <<>>, warnings |-> <<>>],
      [subdomains |-> TwoSubdomains, err |-> FALSE, zoneTransfers |-> <<>>, warnings |-> <<>>],
      [subdomains |-> TwoSubdomains, err |-> FALSE,
       zoneTransfers |-> << [Nameserver |-> "ns1", Success |-> TRUE, Records |-> 1],
                            [Nameserver |-> "ns2", Success |-> FALSE, Records |-> 0] >>,
       warnings |-> << Warning("zone transfer enabled", <<1, 2>>) >>] }

\* mockResolver values
MockResolvers ==
    { [records |-> <<DNSResult(RootHost, <<"1.1.1.1">>, <<>>),
                     DNSResult(WHost, <<"2.2.2.2">>, <<>>)>>,
       dangling |-> <<>>, err |-> FALSE],
      [records |-> <<DNSResult(RootHost, <<>>, <<>>)>>,
       dangling |-> << [Host |-> WHost, CNAME |-> <<"o", ".", "s", "h">>,
                        Status |-> "NXDOMAIN"] >>,
       err |-> FALSE],
      [records |-> <<>>, dangling |-> <<>>, err |-> TRUE],
      [records |-> <<DNSResult(RootHost, <<"1.1.1.1">>, <<>>),
                     DNSResult(RootHost, <<"1.1.1.2">>, <<>>),
                     DNSResult(WHost, <<>>, <<>>)>>,
       dangling |-> <<>>, err |-> TRUE] }

\* mockScanner values
MockScanners ==
    { [ports |-> <<PortResult(RootHost, "1.1.1.1", 80),
                   PortResult(RootHost, "1.1.1.1", 443)>>, err |-> FALSE],
      [ports |-> <<>>, err |-> FALSE],
      [ports |-> <<>>, err |-> TRUE],
      [ports |-> <<PortResult(RootHost, "1.1.1.1", 80)>>, err |-> TRUE] }

\* mockProber values
MockProbers ==
    { [services |-> <<HTTPService("http://x.io:80"), HTTPService("https://x.io:443")>>,
       err |-> FALSE],
      [services |-> <<>>, err |-> FALSE],
      [services |-> <<>>, err |-> TRUE],
      [services |-> <<HTTPService("http://x.io:80")>>, err |-> TRUE] }

\* mockFingerprinter values
MockFingerprinters ==
    { [techs |-> <<>>],
      [techs |-> <<Technology("nginx"), Technology("php")>>],
      [techs |-> <<Technology("nginx"), Technology("nginx")>>] }

\* every combination of mock stages
MockStages ==
    [enum : MockEnumerators, res : MockResolvers, scan : MockScanners,
     probe : MockProbers, fp : MockFingerprinters]

\* the mock stages behind a real enumerator and resolver
PipeMocks ==
    {m \in MockStages :
        /\ m.enum = [subdomains |-> <<>>, err |-> FALSE,
                     zoneTransfers |-> <<>>, warnings |-> <<>>]
        /\ m.res = [records |-> <<>>, dangling |-> <<>>, err |-> TRUE]
        /\ ~m.scan.err
        /\ ~m.probe.err /\ m.probe.services # <<>>
        /\ Len(m.fp.techs) = 2 /\ m.fp.techs[1] # m.fp.techs[2]}

AllMock ==
    [Enumerator |-> "mock", Resolver |-> "mock", Scanner |-> "mock",
     Prober |-> "mock", Fingerprinter |-> "mock"]

\* the recon Enumerator and Resolver, the other stages mocked
RealDiscovery ==
    [Enumerator |-> "real", Resolver |-> "real", Scanner |-> "mock",
     Prober |-> "mock", Fingerprinter |-> "mock"]

\* the stages main wires, the fingerprinter apart
RealPipeline ==
    [Enumerator |-> "real", Resolver |-> "real", Scanner |-> "real",
     Prober |-> "real", Fingerprinter |-> "mock"]

\* the answers of the DNS
Answer(cnameErr, cname, addrErr, ips) ==
    [cname |-> [err |-> cnameErr, name |-> cname], addr |-> [err |-> addrErr, ips |-> ips]]

DNSWorlds ==
    { \* the root has an address, listed twice; w points at an unclaimed site
      (RootHost :> Answer(FALSE, <<"x", ".", "i", "o", ".">>, NilErr, <<"1.1.1.1", "1.1.1.1">>)) @@
      (WHost :> Answer(FALSE, <<"O", ".", "s", "u", "r", "g", "e", ".", "s", "h", ".">>,
                       NotFoundErr, <<>>)),
      \* nothing resolves; the root's lookup fails outside the DNS
      (RootHost :> Answer(TRUE, <<>>, OtherErr, <<>>)) @@
      (WHost :> Answer(FALSE, <<"o", ".", "s", "h", ".">>, ServFailErr, <<>>)),
      \* both have an address, w through a CNAME to the root
      (RootHost :> Answer(TRUE, <<>>, NilErr, <<"1.1.1.1">>)) @@
      (WHost :> Answer(FALSE, <<"X", ".", "i", "o", ".">>, NilErr, <<"1.1.1.1", "1.1.1.2">>)) }

----------------------------------------------------------------------------
(* FingerprintServices                                                     *)

\* a headerMatch and a FingerprintRule as fingerprints.json declares them
HeaderMatch(name, pattern) == [Name |-> name, Pattern |-> pattern]
FingerprintRule(name, category, headers, body, cookies) ==
    [Name |-> name, Category |-> category, Headers |-> headers, Body |-> body,
     Cookies |-> cookies]

\* the rules loaded by loadFingerprints: header rules with and without a
\* pattern, a rule with a header and a cookie condition, body rules of which
\* two share their substring, a cookie rule
fingerprintRules ==
    << FingerprintRule("nginx", "web-server",
           <<HeaderMatch(<<"S", "e", "r", "v", "e", "r">>, <<"n", "g", "i", "n", "x">>)>>,
           <<>>, <<>>),
       FingerprintRule("Cloudflare", "cdn-waf",
           <<HeaderMatch(<<"C", "F", "-", "R", "A", "Y">>, <<>>)>>, <<>>, <<>>),
       FingerprintRule("PHP", "language",
           <<HeaderMatch(<<"s", "e", "r", "v", "e", "r">>, <<"P", "H", "P">>)>>,
           <<>>, << <<"P", "H", "P", "S", "I", "D">> >>),
       FingerprintRule("WordPress", "cms", <<>>, << <<"W", "P", "-">> >>, <<>>),
       FingerprintRule("React", "framework", <<>>, << <<"_", "n", "e", "x", "t">> >>, <<>>),
       FingerprintRule("Next.js", "framework", <<>>, << <<"_", "n", "e", "x", "t">> >>, <<>>),
       FingerprintRule("Laravel", "framework", <<>>, <<>>, << <<"l", "a", "r", "a">> >>) >>

\* h.regex after loadFingerprints: none for an empty pattern, else the
\* pattern compiled with "(?i)"
Regex(pattern) == IF pattern = <<>> THEN Nil ELSE [nil |-> FALSE, literal |-> ToLower(pattern)]

\* regex.MatchString for a literal pattern under "(?i)"
MatchString(regex, val) == Contains(ToLower(val), regex.literal)

\* probeData
ProbeData(headers, body, cookies) == [headers |-> headers, body |-> body, cookies |-> cookies]

matchesRule(rule, data) ==
    \/ \E j \in DOMAIN rule.Headers :
          LET hm == rule.Headers[j]
              headerName == ToLower(hm.Name)
          IN  /\ headerName \in DOMAIN data.headers
              /\ \/ Regex(hm.Pattern) # Nil
                       /\ MatchString(Regex(hm.Pattern), data.headers[headerName])
                 \/ hm.Pattern = <<>> /\ data.headers[headerName] # <<>>
    \/ \E j \in DOMAIN rule.Body :
          Contains(ToLower(data.body), ToLower(rule.Body[j]))
    \/ \E j \in DOMAIN rule.Cookies, k \in DOMAIN data.cookies :
          ToLower(data.cookies[k]) = ToLower(rule.Cookies[j])

\* no header at all for a service without probe data
NoHeaders(svc) == ProbeData(<<>>, <<>>, <<>>)

\* "Fallback: fingerprint from headers only."
FallbackData(svc) ==
    ProbeData(IF svc.Server # <<>> THEN (<<"s", "e", "r", "v", "e", "r">> :> svc.Server)
              ELSE <<>>,
              <<>>, <<>>)

\* the data a service is fingerprinted from
DataFor(svc, probes) ==
    IF svc.URL \in DOMAIN probes THEN probes[svc.URL] ELSE FallbackData(svc)

\* the technologies of the rules matching data, in rule order
RECURSIVE Techs(_, _)
Techs(rules, data) ==
    IF rules = <<>> THEN <<>>
    ELSE (IF matchesRule(Head(rules), data)
          THEN <<[Name |-> Head(rules).Name, Category |-> Head(rules).Category]>>
          ELSE <<>>) \o Techs(Tail(rules), data)

\* the technologies found are appended to those the service already has
FingerprintServicesAppending(services, probes) ==
    [i \in 1..Len(services) |->
        [services[i] EXCEPT !.Technologies =
            services[i].Technologies \o Techs(fingerprintRules, DataFor(services[i], probes))]]

\* FingerprintServices: the services after the call
FingerprintServices(services, probes) ==
    [i \in 1..Len(services) |->
        [services[i] EXCEPT !.Technologies =
            Techs(fingerprintRules, DataFor(services[i], probes))]]

\* FingerprintServices called on its own: callRet lists the calls made, each
\* with the services before and after
CallFingerprintServices(services) ==
    /\ callFn = "FingerprintServices"
    /\ Len(callRet) < MaxCalls
    /\ callRet' = Append(callRet, [in |-> services,
                                   out |-> FingerprintServices(services, callArgs.probes)])
    /\ UNCHANGED <<callFn, callArgs>>
    /\ UNCHANGED <<ctxDone, cfgVars, enumVars, progressWarn, resolveVars, scanVars,
                   probeVars, runVars>>

----------------------------------------------------------------------------
(* The response bodies of the remote sources                               *)

\* strings.Split on a one-character separator
RECURSIVE Split(_, _)
Split(s, sep) ==
    IF \A i \in DOMAIN s : s[i] # sep THEN <<s>>
    ELSE LET k == CHOOSE i \in DOMAIN s : s[i] = sep /\ \A j \in 1..(i - 1) : s[j] # sep
         IN  <<SubSeq(s, 1, k - 1)>> \o Split(SubSeq(s, k + 1, Len(s)), sep)

\* the names of the decoded crt.sh entries, in order: every name_value split
\* at its newlines
RECURSIVE NameValueNames(_)
NameValueNames(entries) ==
    IF entries = <<>> THEN <<>>
    ELSE Split(Head(entries), "\n") \o NameValueNames(Tail(entries))

\* the host column of a HackerTarget body: of every line, trimmed, what
\* stands before the first comma (strings.SplitN(line, ",", 2)[0])
HostColumn(body) ==
    LET lines == Split(body, "\n")
    IN  [i \in 1..Len(lines) |-> Split(TrimSpace(lines[i]), ",")[1]]

\* the functions that turn a response body into hosts
Parsers == {"CrtshEnumerate", "parseHackertargetResponse", "parseOTXResponse"}

ParserFrame ==
    /\ callRet = Nil
    /\ UNCHANGED <<callFn, callArgs>>
    /\ UNCHANGED <<ctxDone, cfgVars, enumVars, progressWarn, resolveVars, scanVars,
                   probeVars, runVars>>

\* CrtshEnumerate once crtshFetch returned the body
CallCrtshEnumerate ==
    /\ callFn = "CrtshEnumerate"
    /\ callRet' = CrtshEnumerate([err |-> FALSE, body |-> NameValueNames(callArgs.body)],
                                 callArgs.domain)
    /\ ParserFrame

CallParseHackertargetResponse ==
    /\ callFn = "parseHackertargetResponse"
    /\ callRet' = [err |-> FALSE,
                   hosts |-> parseHackertargetResponse(HostColumn(callArgs.body),
                                                       callArgs.domain)]
    /\ ParserFrame

CallParseOTXResponse ==
    /\ callFn = "parseOTXResponse"
    /\ callRet' = [err |-> FALSE,
                   hosts |-> parseOTXResponse(callArgs.body, callArgs.domain)]
    /\ ParserFrame

----------------------------------------------------------------------------
(* Port lists: parsePorts and ports.Top100                                 *)

\* most tokens of a port list, most entries of a source list
MaxPorts == 3

\* the highest port number
MaxPort == 65535

IsDigit(c) == \E i \in DOMAIN Digits : Digits[i] = c
DigitValue(c) == (CHOOSE i \in DOMAIN Digits : Digits[i] = c) - 1

\* the loop of strconv.Atoi over the digits: n = n*10 + digit
RECURSIVE AtoiDigits(_, _)
AtoiDigits(s, n) ==
    IF s = <<>> THEN n ELSE AtoiDigits(Tail(s), n * 10 + DigitValue(Head(s)))

\* strconv.Atoi: an optional sign, then at least one character, digits only
Atoi(s) ==
    LET signed == s # <<>> /\ Head(s) \in {"+", "-"}
        digits == IF signed THEN Tail(s) ELSE s
    IN  IF digits = <<>> \/ \E i \in DOMAIN digits : ~IsDigit(digits[i])
        THEN [err |-> TRUE, n |-> 0]
        ELSE [err |-> FALSE,
              n |-> IF signed /\ Head(s) = "-" THEN 0 - AtoiDigits(digits, 0)
                    ELSE AtoiDigits(digits, 0)]

\* a range test that lets every number through
AnyPort(port) == TRUE

\* "port < 1 || port > 65535" is an error
ValidPort(port) == ~(port < 1 \/ port > MaxPort)

\* the loop of parsePorts over the parts, and what follows it; nil is the
\* empty list
RECURSIVE parsePortsLoop(_, _)
parsePortsLoop(parts, ports) ==
    IF parts = <<>>
    THEN IF Len(ports) = 0 THEN [err |-> TRUE, ports |-> <<>>]
         ELSE [err |-> FALSE, ports |-> ports]
    ELSE LET p == TrimSpace(Head(parts))
             port == Atoi(p)
         IN  IF p = <<>> THEN parsePortsLoop(Tail(parts), ports)
             ELSE IF port.err THEN [err |-> TRUE, ports |-> <<>>]
             ELSE IF ~ValidPort(port.n) THEN [err |-> TRUE, ports |-> <<>>]
             ELSE parsePortsLoop(Tail(parts), AppendUnique(ports, port.n))

parsePorts(s) == parsePortsLoop(Split(s, ","), <<>>)

\* the source list of Top100, as written
Top100 ==
    << 21, 22, 23, 25, 26, 53, 80, 81, 110, 111,
       113, 135, 139, 143, 179, 199, 443, 445, 465, 514,
       515, 548, 554, 587, 631, 636, 646, 993, 995, 1025,
       1026, 1027, 1028, 1029, 1110, 1433, 1720, 1723, 1755, 1900,
       2000, 2001, 2049, 2121, 2717, 3000, 3128, 3306, 3389, 3986,
       4899, 5000, 5009, 5051, 5060, 5101, 5190, 5357, 5432, 5631,
       5666, 5800, 5900, 6000, 6001, 6646, 7070, 8000, 8008, 8009,
       8080, 8081, 8443, 8888, 9090, 9100, 9999, 10000, 32768, 49152,
       49153, 49154, 49155, 49156, 49157, 1080, 1443, 2082, 2083, 2086,
       2087, 4443, 6379, 6443, 8443, 8880, 9200, 9443, 27017, 27018 >>

\* the port appended whether seen or not
AppendSeen(deduped, p) == Append(deduped, p)

\* init: "if !seen[p] { seen[p] = true; deduped = append(deduped, p) }"
AppendUnseen(deduped, p) == AppendUnique(deduped, p)

\* init: "deduped[i], deduped[j] = deduped[j], deduped[i]"
Swap(deduped, i, j) == [deduped EXCEPT ![i] = deduped[j], ![j] = deduped[i]]

\* the locals of init: the loop it is in, its indices (from 1) and the slice
InitFrame(at, i, j, deduped) == [pc |-> at, i |-> i, j |-> j, deduped |-> deduped]

\* what stays as it is when a function of the port lists is called on its own
PortsFrame ==
    /\ callRet = Nil
    /\ UNCHANGED <<callFn, callArgs>>
    /\ UNCHANGED <<ctxDone, cfgVars, enumVars, progressWarn, resolveVars, scanVars,
                   probeVars, runVars>>

\* parsePorts called on the value of --ports
CallParsePorts ==
    /\ callFn = "parsePorts"
    /\ callRet' = parsePorts(callArgs.s)
    /\ PortsFrame

\* what stays as it is while init runs
PortsInitFrame ==
    /\ callFn = "init" /\ callRet = Nil
    /\ UNCHANGED callFn
    /\ UNCHANGED <<ctxDone, cfgVars, enumVars, progressWarn, resolveVars, scanVars,
                   probeVars, runVars>>

\* init, "Deduplicate": one turn of the loop over Top100
PortsInitDedupe ==
    /\ PortsInitFrame
    /\ callArgs.frame.pc = "dedupe"
    /\ LET f == callArgs.frame
       IN  callArgs' = [callArgs EXCEPT !.frame =
               IF f.i > Len(callArgs.Top100)
               THEN InitFrame("sort", 1, 2, f.deduped)
               ELSE InitFrame("dedupe", f.i + 1, f.j, AppendUnseen(f.deduped, callArgs.Top100[f.i]))]
    /\ UNCHANGED callRet

\* init, "Sort": one turn of the inner loop, or the outer loop moving on
PortsInitSort ==
    /\ PortsInitFrame
    /\ callArgs.frame.pc = "sort"
    /\ callArgs.frame.i <= Len(callArgs.frame.deduped)
    /\ LET f == callArgs.frame
       IN  callArgs' = [callArgs EXCEPT !.frame =
               IF f.j > Len(f.deduped)
               THEN InitFrame("sort", f.i + 1, f.i + 2, f.deduped)
               ELSE InitFrame("sort", f.i, f.j + 1,
                              IF f.deduped[f.j] < f.deduped[f.i]
                              THEN Swap(f.deduped, f.i, f.j) ELSE f.deduped)]
    /\ UNCHANGED callRet

\* init: "Top100 = deduped"
PortsInitAssign ==
    /\ PortsInitFrame
    /\ callArgs.frame.pc = "sort"
    /\ callArgs.frame.i > Len(callArgs.frame.deduped)
    /\ callRet' = [Top100 |-> callArgs.frame.deduped]
    /\ UNCHANGED callArgs

----------------------------------------------------------------------------
(* Enumerate's goroutines and BruteEnumerate's workers, one step at a time *)

\* the halved budget as it comes out of the division
Halved(c) == Quot(c, 2)

\* bruteConcurrency
BruteConcurrency(c) == IF Quot(c, 2) < 1 THEN 1 ELSE Quot(c, 2)

\* a goroutine between its network call and its write: waiting for the
\* mutex, or holding it
Locking(item) == [st |-> "lock", item |-> item]
Writing(item) == [st |-> "write", item |-> item]

\* a Lock that does not wait for the mutex to be free
LockAtOnce(m, who) == mu' = [mu EXCEPT ![m] = who]

\* sync.Mutex.Lock: returns once the mutex is free, and takes it
Lock(m, who) == mu[m] = Free /\ mu' = [mu EXCEPT ![m] = who]

\* an Unlock that leaves the mutex with its holder
KeepLocked(m) == UNCHANGED mu

\* sync.Mutex.Unlock
Unlock(m) == mu' = [mu EXCEPT ![m] = Free]

\* what stays as it is while a goroutine of Enumerate takes a step
OutsideEnumerate ==
    <<ctxDone, cfgVars, enumPc, enumRet, resolveVars, runVars, scanVars, probeVars, callVars>>

\* what the source function of a goroutine can return for this domain
SourceResults(s) ==
    LET here(S) == {x[3] : x \in {y \in S : y[1] = remote /\ y[2] = domain}}
    IN  IF s = "crt.sh" THEN here(CrtshResults)
        ELSE IF s = "hackertarget" THEN here(HackertargetResults)
        ELSE IF s = "otx" THEN here(OTXResults)
        ELSE here(ZoneTransferResults)

\* the name a goroutine gives itself in Progress.Warn
WarnName(s) == IF s = "axfr" THEN "zone transfer" ELSE s

\* a goroutine calls its source function, which starts its network operation
SourceCall(s) ==
    /\ enumPc = "running" /\ s # "brute" /\ srcPc[s] = "running"
    /\ srcPc' = [srcPc EXCEPT ![s] = "call"]
    /\ UNCHANGED <<hostSources, srcRet, warnings, zoneTransfers, axfrRun, fetchRun,
                   bruteRun, mu, progressWarn, OutsideEnumerate>>

\* the source function returns: the crt.sh goroutine ends on an error, every
\* other case goes on to e.mu.Lock(); what was returned is drawn where it is
\* used
SourceReturn(s) ==
    /\ s # "brute" /\ srcPc[s] = "call"
    /\ \/ /\ s = "crt.sh"
          /\ \E r \in SourceResults(s) : r.err /\ CrtshGoroutine(r)
       \/ /\ \E r \in SourceResults(s) : (s = "crt.sh" => ~r.err) /\ (ctxDone => r.err)
          /\ srcPc' = [srcPc EXCEPT ![s] = "lock"]
          /\ UNCHANGED <<hostSources, srcRet, warnings, progressWarn, OutsideEnumerate>>
    /\ UNCHANGED <<zoneTransfers, axfrRun, fetchRun, bruteRun, mu>>

\* e.mu.Lock() of a goroutine
SourceLock(s) ==
    /\ srcPc[s] = "lock"
    /\ Lock("Enumerator", <<s>>)
    /\ srcPc' = [srcPc EXCEPT ![s] = "write"]
    /\ UNCHANGED <<hostSources, srcRet, warnings, zoneTransfers, axfrRun, fetchRun,
                   bruteRun, progressWarn, OutsideEnumerate>>

\* the writes of a goroutine under e.mu, e.mu.Unlock() and its end
SourceWrite(s) ==
    /\ srcPc[s] = "write"
    /\ \/ s = "brute" /\ BruteGoroutine(srcRet[s]) /\ UNCHANGED zoneTransfers
       \/ /\ s # "brute"
          /\ \E r \in SourceResults(s) :
              /\ ctxDone => r.err
              /\ \/ s = "crt.sh" /\ ~r.err /\ CrtshGoroutine(r) /\ UNCHANGED zoneTransfers
                 \/ s = "hackertarget" /\ HackertargetGoroutine(r) /\ UNCHANGED zoneTransfers
                 \/ s = "otx" /\ OTXGoroutine(r) /\ UNCHANGED zoneTransfers
                 \/ s = "axfr" /\ ZoneTransferGoroutine(r)
    /\ Unlock("Enumerator")
    /\ UNCHANGED <<axfrRun, fetchRun, bruteRun>>

\* the brute-force goroutine calls BruteEnumerate: the words go on the
\* channel and bruteConcurrency workers start
BruteEntry ==
    /\ enumPc = "running" /\ srcPc["brute"] = "running"
    /\ srcPc' = [srcPc EXCEPT !["brute"] = "call"]
    /\ bruteRun' =
         [NoBrute EXCEPT
             !.pc = "running",
             !.work = [i \in 1..Len(Words) |-> i],
             !.workers = IF Len(Words) = 0 THEN <<>>
                         ELSE [i \in 1..BruteConcurrency(concurrency) |-> AtLoopHead]]
    /\ UNCHANGED <<hostSources, srcRet, warnings, zoneTransfers, axfrRun, fetchRun,
                   mu, progressWarn, OutsideEnumerate>>

\* what stays as it is while a worker of BruteEnumerate takes a step
BruteFrame ==
    UNCHANGED <<hostSources, srcPc, srcRet, warnings, zoneTransfers, axfrRun, fetchRun,
                progressWarn, OutsideEnumerate>>

\* a worker takes the next word from the channel, checks ctx and starts the lookup
BruteWorker(i) ==
    /\ bruteRun.pc = "running" /\ bruteRun.workers[i] = AtLoopHead
    /\ bruteRun' =
         IF bruteRun.work = <<>>
         THEN [bruteRun EXCEPT !.workers[i] = Exited]
         ELSE [bruteRun EXCEPT
                  !.work = Tail(bruteRun.work),
                  !.workers[i] = IF Stops(ctxDone) THEN Exited
                                 ELSE InCall(Head(bruteRun.work))]
    /\ UNCHANGED mu
    /\ BruteFrame

\* LookupHost returns: with an address the worker goes on to mu.Lock()
BruteLookup(i) ==
    /\ bruteRun.pc = "running" /\ bruteRun.workers[i].st = "call"
    /\ \E resolved \in BOOLEAN :
        bruteRun' =
          [bruteRun EXCEPT
              !.lookups = Append(bruteRun.lookups, bruteRun.workers[i].item),
              !.workers[i] = IF resolved THEN Locking(bruteRun.workers[i].item)
                             ELSE AtLoopHead]
    /\ UNCHANGED mu
    /\ BruteFrame

\* mu.Lock() of a worker
BruteLock(i) ==
    /\ bruteRun.pc = "running" /\ bruteRun.workers[i].st = "lock"
    /\ Lock("BruteEnumerate", <<"brute", i>>)
    /\ bruteRun' = [bruteRun EXCEPT !.workers[i] = Writing(bruteRun.workers[i].item)]
    /\ BruteFrame

\* found = append(found, host) and mu.Unlock()
BruteWrite(i) ==
    /\ bruteRun.pc = "running" /\ bruteRun.workers[i].st = "write"
    /\ bruteRun' =
         [bruteRun EXCEPT
             !.found = Append(bruteRun.found,
                              ToLower(Words[bruteRun.workers[i].item] \o Dot \o domain)),
             !.workers[i] = AtLoopHead]
    /\ Unlock("BruteEnumerate")
    /\ BruteFrame

\* wg.Wait of BruteEnumerate: every worker has returned
BruteWorkersDone == \A i \in DOMAIN bruteRun.workers : bruteRun.workers[i] = Exited

\* BruteEnumerate returns to its goroutine: an error for an empty wordlist
\* ends the goroutine, a list takes it to e.mu.Lock()
BruteReturn ==
    /\ srcPc["brute"] = "call" /\ bruteRun.pc = "running"
    /\ BruteWorkersDone
    /\ bruteRun' = [bruteRun EXCEPT !.pc = "returned"]
    /\ IF Len(Words) = 0
       THEN BruteGoroutine([err |-> TRUE, hosts |-> <<>>])
       ELSE /\ srcRet' = [srcRet EXCEPT !["brute"] = [err |-> FALSE, hosts |-> bruteRun.found]]
            /\ srcPc' = [srcPc EXCEPT !["brute"] = "lock"]
            /\ UNCHANGED <<hostSources, warnings, progressWarn, OutsideEnumerate>>
    /\ UNCHANGED <<zoneTransfers, axfrRun, fetchRun, mu>>

----------------------------------------------------------------------------
(* The workers of DNSResolve, PortScan and HTTPProbe, lock by lock         *)

\* the Enumerator's state but the mutexes
EnumButMu ==
    <<enumPc, hostSources, srcPc, srcRet, warnings, zoneTransfers, axfrRun, fetchRun,
      bruteRun, enumRet>>

\* Enumerate called on its own
CallEnumerate ==
    /\ callFn = ""
    /\ EnumerateEntryCore
    /\ callFn' = "Enumerate"
    /\ callArgs' = [ctx |-> ctxDone, domain |-> domain, concurrency |-> concurrency]
    /\ UNCHANGED callRet
    /\ UNCHANGED <<ctxDone, cfgVars, progressWarn, resolveVars, runVars, scanVars, probeVars>>

\* the lookups of a DNSResolve worker return: with a record or a candidate
\* to append it goes on to mu.Lock(), with neither to the next host
ResolveLookupReturns(i) ==
    /\ workerPc[i].st = "call"
    /\ \E ans \in LookupOutcomes(workerPc[i].item, ctxDone) :
        LET r == ResolveHost(workerPc[i].item, ans)
        IN  /\ lookupLog' = Append(lookupLog, [host |-> workerPc[i].item, answer |-> ans])
            /\ workerPc' = [workerPc EXCEPT ![i] =
                   IF r.records = <<>> /\ r.danglings = <<>> THEN AtLoopHead
                   ELSE Locking(r)]
    /\ UNCHANGED <<work, dnsResults, danglings>>
    /\ UNCHANGED <<ctxDone, cfgVars, enumVars, progressWarn, scanVars, probeVars,
                   runVars, callVars>>

\* mu.Lock() of a DNSResolve worker
ResolveLock(i) ==
    /\ workerPc[i].st = "lock"
    /\ Lock("DNSResolve", <<"resolver", i>>)
    /\ workerPc' = [workerPc EXCEPT ![i] = Writing(workerPc[i].item)]
    /\ UNCHANGED <<work, dnsResults, danglings, lookupLog>>
    /\ UNCHANGED <<ctxDone, cfgVars, EnumButMu, progressWarn, scanVars, probeVars,
                   runVars, callVars>>

\* the append of a DNSResolve worker and mu.Unlock()
ResolveWrite(i) ==
    /\ workerPc[i].st = "write"
    /\ dnsResults' = dnsResults \o workerPc[i].item.records
    /\ danglings' = danglings \o workerPc[i].item.danglings
    /\ Unlock("DNSResolve")
    /\ workerPc' = [workerPc EXCEPT ![i] = AtLoopHead]
    /\ UNCHANGED <<work, lookupLog>>
    /\ UNCHANGED <<ctxDone, cfgVars, EnumButMu, progressWarn, scanVars, probeVars,
                   runVars, callVars>>

\* the dial of a PortScan worker returns: with a connection it goes on to
\* mu.Lock(), without one to the next target
ScanDialReturns(i) ==
    /\ scanPc[i].st = "call"
    /\ LET t == scanPc[i].item
       IN  \E ok \in DialOutcomes(t, ctxDone) :
             /\ dialLog' = Append(dialLog, [ev |-> "done", target |-> t,
                                            ctx |-> ctxDone, ok |-> ok])
             /\ scanPc' = [scanPc EXCEPT ![i] = IF ok THEN Locking(t) ELSE AtLoopHead]
    /\ UNCHANGED <<scanWork, scanResults>>
    /\ UNCHANGED <<ctxDone, cfgVars, enumVars, progressWarn, resolveVars, probeVars,
                   runVars, callVars>>

\* mu.Lock() of a PortScan worker
ScanLock(i) ==
    /\ scanPc[i].st = "lock"
    /\ Lock("PortScan", <<"scanner", i>>)
    /\ scanPc' = [scanPc EXCEPT ![i] = Writing(scanPc[i].item)]
    /\ UNCHANGED <<scanWork, scanResults, dialLog>>
    /\ UNCHANGED <<ctxDone, cfgVars, EnumButMu, progressWarn, resolveVars, probeVars,
                   runVars, callVars>>

\* the append of a PortScan worker and mu.Unlock()
ScanWrite(i) ==
    /\ scanPc[i].st = "write"
    /\ LET t == scanPc[i].item
       IN  scanResults' = Append(scanResults, [Host |-> t.host, IP |-> t.ip, Port |-> t.port])
    /\ Unlock("PortScan")
    /\ scanPc' = [scanPc EXCEPT ![i] = AtLoopHead]
    /\ UNCHANGED <<scanWork, dialLog>>
    /\ UNCHANGED <<ctxDone, cfgVars, EnumButMu, progressWarn, resolveVars, probeVars,
                   runVars, callVars>>

\* the request of an HTTPProbe worker returns: with a response probePort
\* returns the service and the worker goes on to mu.Lock(); with none, the
\* next scheme's request starts, if any
ProbeRequestReturns(i) ==
    /\ probePc[i].st = "call"
    /\ LET it == probePc[i].item
           scheme == Head(it.schemes)
       IN  \E out \in RequestOutcomes(it.pr, scheme, it.ctx, ctxDone) :
             /\ requestLog' = Append(requestLog, [pr |-> it.pr, scheme |-> scheme,
                                                  got |-> out.got, status |-> out.status])
             /\ probePc' = [probePc EXCEPT ![i] =
                    IF out.got THEN Locking([svc |-> Service(it.pr, scheme, out.status)])
                    ELSE IF SchemesLeft(it.schemes, out.got) = <<>> THEN AtLoopHead
                    ELSE InCall([pr |-> it.pr, schemes |-> SchemesLeft(it.schemes, out.got),
                                 ctx |-> ctxDone])]
    /\ UNCHANGED <<probeWork, probeResults>>
    /\ UNCHANGED <<ctxDone, cfgVars, enumVars, progressWarn, resolveVars, scanVars,
                   runVars, callVars>>

\* mu.Lock() of an HTTPProbe worker
ProbeLock(i) ==
    /\ probePc[i].st = "lock"
    /\ Lock("HTTPProbe", <<"prober", i>>)
    /\ probePc' = [probePc EXCEPT ![i] = Writing(probePc[i].item)]
    /\ UNCHANGED <<probeWork, probeResults, requestLog>>
    /\ UNCHANGED <<ctxDone, cfgVars, EnumButMu, progressWarn, resolveVars, scanVars,
                   runVars, callVars>>

\* the append of an HTTPProbe worker and mu.Unlock()
ProbeWrite(i) ==
    /\ probePc[i].st = "write"
    /\ probeResults' = Append(probeResults, probePc[i].item.svc)
    /\ Unlock("HTTPProbe")
    /\ probePc' = [probePc EXCEPT ![i] = AtLoopHead]
    /\ UNCHANGED <<probeWork, requestLog>>
    /\ UNCHANGED <<ctxDone, cfgVars, EnumButMu, progressWarn, resolveVars, scanVars,
                   runVars, callVars>>

----------------------------------------------------------------------------
(* Specifications                                                          *)

EnumIdle ==
    /\ enumPc = "idle"
    /\ hostSources = <<>>
    /\ srcPc = [s \in SourceNames |-> "idle"]
    /\ srcRet = [s \in SourceNames |-> NoRet]
    /\ warnings = <<>>
    /\ zoneTransfers = <<>>
    /\ axfrRun = NotCalled
    /\ fetchRun = NoFetch
    /\ bruteRun = NoBrute
    /\ mu = Unlocked
    /\ enumRet = NoEnumRet
    /\ progressWarn = {}

ResolveIdle ==
    /\ work = <<>>
    /\ workerPc = <<>>
    /\ dnsResults = <<>>
    /\ danglings = <<>>
    /\ lookupLog = <<>>

ScanIdle ==
    /\ scanWork = <<>>
    /\ scanPc = <<>>
    /\ scanResults = <<>>
    /\ dialLog = <<>>

ProbeIdle ==
    /\ probeWork = <<>>
    /\ probePc = <<>>
    /\ probeResults = <<>>
    /\ requestLog = <<>>

\* no function called on its own
NoCall ==
    /\ callFn = ""
    /\ callArgs = <<>>
    /\ callRet = Nil

RunIdle ==
    /\ pc = "init"
    /\ result = NewResult(domain)
    /\ runRet = [result |-> Nil, err |-> ""]
    /\ trace = <<>>

\* nothing has run yet
Idle == EnumIdle /\ ResolveIdle /\ ScanIdle /\ ProbeIdle /\ RunIdle /\ NoCall

\* Enumerate called on a fresh Enumerator
InitEnum ==
    /\ ctxDone = FALSE
    /\ domain \in Domains
    /\ axfr \in BOOLEAN
    /\ concurrency = 1
    /\ stages = RealDiscovery
    /\ mocks = CHOOSE m \in PipeMocks : TRUE
    /\ remote = FullRemote
    /\ dns = <<>>
    /\ tcp = {}
    /\ web = <<>>
    /\ Idle

NextEnum ==
    \/ EnumerateEntry
    \/ CrtshSource
    \/ BruteSource
    \/ HackertargetSource
    \/ OTXSource
    \/ ZoneTransferSource
    \/ EnumerateReturn
    \/ Cancel

SpecEnum == InitEnum /\ [][NextEnum]_vars

\* Enumerate in the end-to-end scenario
InitScenario ==
    /\ ctxDone = FALSE
    /\ domain = LowerDomain
    /\ axfr \in BOOLEAN
    /\ concurrency = 1
    /\ stages = RealDiscovery
    /\ mocks = CHOOSE m \in PipeMocks : TRUE
    /\ remote = ScenarioRemote
    /\ dns = <<>>
    /\ tcp = {}
    /\ web = <<>>
    /\ Idle

SpecScenario == InitScenario /\ [][NextEnum]_vars

\* Enumerate with every goroutine and every brute-force worker followed
\* step by step, on a context that stays open
InitGoroutines ==
    /\ ctxDone = FALSE
    /\ domain = LowerDomain
    /\ axfr = TRUE
    /\ concurrency \in {1, 4}
    /\ stages = RealDiscovery
    /\ mocks = CHOOSE m \in PipeMocks : TRUE
    /\ remote = SmallRemote
    /\ dns = <<>>
    /\ tcp = {}
    /\ web = <<>>
    /\ Idle

NextGoroutines ==
    \/ EnumerateEntry
    \/ \E s \in SourceNames : SourceCall(s)
    \/ \E s \in SourceNames : SourceReturn(s)
    \/ \E s \in SourceNames : SourceLock(s)
    \/ \E s \in SourceNames : SourceWrite(s)
    \/ BruteEntry
    \/ \E i \in DOMAIN bruteRun.workers : BruteWorker(i)
    \/ \E i \in DOMAIN bruteRun.workers : BruteLookup(i)
    \/ \E i \in DOMAIN bruteRun.workers : BruteLock(i)
    \/ \E i \in DOMAIN bruteRun.workers : BruteWrite(i)
    \/ BruteReturn
    \/ EnumerateReturn

SpecGoroutines == InitGoroutines /\ [][NextGoroutines]_vars

\* the tokens a --ports value is made of
PortTokens ==
    { <<"8", "0">>,
      <<" ", "4", "4", "3", " ">>,
      <<>>,
      <<" ">>,
      <<"0">>,
      <<"6", "5", "5", "3", "5">>,
      <<"6", "5", "5", "3", "6">>,
      <<"x">>,
      <<"-", "1">>,
      <<"+", "8", "0">>,
      <<"0", "8", "0">>,
      <<"8", "x">> }

\* strings.Join(tokens, ",")
RECURSIVE JoinCommas(_)
JoinCommas(tokens) ==
    IF tokens = <<>> THEN <<>>
    ELSE IF Len(tokens) = 1 THEN tokens[1]
    ELSE tokens[1] \o <<",">> \o JoinCommas(Tail(tokens))

\* source lists a port table can be written with, within the port range
SourceLists == {Top100} \cup SeqsUpTo({22, 80, 8443}, MaxPorts)

\* parsePorts on a list of tokens, or the initialisation of a port table
InitPorts ==
    /\ ctxDone = FALSE
    /\ domain = LowerDomain
    /\ axfr = FALSE
    /\ concurrency = 1
    /\ stages = RealDiscovery
    /\ mocks = CHOOSE m \in PipeMocks : TRUE
    /\ remote = EmptyRemote
    /\ dns = <<>>
    /\ tcp = {}
    /\ web = <<>>
    /\ EnumIdle /\ ResolveIdle /\ ScanIdle /\ ProbeIdle /\ RunIdle
    /\ \/ /\ callFn = "parsePorts"
          /\ \E tokens \in SeqsUpTo(PortTokens, MaxPorts) :
               callArgs = [tokens |-> tokens, s |-> JoinCommas(tokens)]
       \/ /\ callFn = "init"
          /\ \E list \in SourceLists :
               callArgs = [Top100 |-> list, frame |-> InitFrame("dedupe", 1, 1, <<>>)]
    /\ callRet = Nil

NextPorts ==
    \/ CallParsePorts
    \/ PortsInitDedupe
    \/ PortsInitSort
    \/ PortsInitAssign

SpecPorts == InitPorts /\ [][NextPorts]_vars

\* Enumerate with zone transfers enabled, AttemptZoneTransfers followed one
\* nameserver at a time; only the zone has names to give
InitZone ==
    /\ ctxDone = FALSE
    /\ domain = MixedDomain
    /\ axfr = TRUE
    /\ concurrency = 1
    /\ stages = RealDiscovery
    /\ mocks = CHOOSE m \in PipeMocks : TRUE
    /\ remote = ZoneRemote
    /\ dns = <<>>
    /\ tcp = {}
    /\ web = <<>>
    /\ Idle

NextZone ==
    \/ EnumerateEntry
    \/ CrtshSource
    \/ BruteSource
    \/ HackertargetSource
    \/ OTXSource
    \/ ZoneTransferLookup
    \/ ZoneTransferAttempt
    \/ ZoneTransferReturn
    \/ EnumerateReturn
    \/ Cancel

SpecZone == InitZone /\ [][NextZone]_vars

\* Enumerate with the fetch of one remote source followed request by request
InitFetch ==
    /\ ctxDone = FALSE
    /\ domain = LowerDomain
    /\ axfr = FALSE
    /\ concurrency = 1
    /\ stages = RealDiscovery
    /\ mocks = CHOOSE m \in PipeMocks : TRUE
    /\ remote = SmallRemote
    /\ dns = <<>>
    /\ tcp = {}
    /\ web = <<>>
    /\ enumPc = "idle"
    /\ hostSources = <<>>
    /\ srcPc = [s \in SourceNames |-> "idle"]
    /\ srcRet = [s \in SourceNames |-> NoRet]
    /\ warnings = <<>>
    /\ zoneTransfers = <<>>
    /\ axfrRun = NotCalled
    /\ \E s \in RemoteSources : fetchRun = [NoFetch EXCEPT !.source = s]
    /\ bruteRun = NoBrute
    /\ mu = Unlocked
    /\ enumRet = NoEnumRet
    /\ progressWarn = {}
    /\ ResolveIdle /\ ScanIdle /\ ProbeIdle /\ RunIdle /\ NoCall

NextFetch ==
    \/ EnumerateEntry
    \/ (fetchRun.source # "crt.sh" /\ CrtshSource)
    \/ BruteSource
    \/ (fetchRun.source # "hackertarget" /\ HackertargetSource)
    \/ (fetchRun.source # "otx" /\ OTXSource)
    \/ FetchFirstRequest
    \/ FetchBackoffCancelled
    \/ FetchBackoffElapsed
    \/ FetchSecondRequest
    \/ FetchReturn
    \/ EnumerateReturn
    \/ Cancel

SpecFetch == InitFetch /\ [][NextFetch]_vars

\* names a response body can list: a padded upper-case subdomain, a foreign
\* name sharing the tail, a blank, a wildcard, the domain itself
ParseNames == RawNames \cup { <<"*", ".", "x", ".", "i", "o">>, <<"x", ".", "i", "o">> }

RECURSIVE JoinLines(_)
JoinLines(lines) ==
    IF lines = <<>> THEN <<>>
    ELSE IF Len(lines) = 1 THEN Head(lines)
    ELSE Head(lines) \o <<"\n">> \o JoinLines(Tail(lines))

\* the body each remote end sends for a list of names: crt.sh a list of
\* entries, the first holding two names when there are two; HackerTarget
\* lines "name,address"; OTX a list of hostnames
BodyOf(fn, names) ==
    IF fn = "CrtshEnumerate"
    THEN IF Len(names) >= 2
         THEN <<names[1] \o <<"\n">> \o names[2]>> \o SubSeq(names, 3, Len(names))
         ELSE names
    ELSE IF fn = "parseHackertargetResponse"
    THEN JoinLines([i \in 1..Len(names) |-> names[i] \o <<",", "1", "0", ".", "0", ".", "0", ".", "1">>])
    ELSE names

\* a parser called on its own on a body of at most MaxRaw names
InitParse ==
    /\ ctxDone = FALSE
    /\ domain = LowerDomain
    /\ axfr = FALSE
    /\ concurrency = 1
    /\ stages = AllMock
    /\ mocks = CHOOSE m \in PipeMocks : TRUE
    /\ remote = EmptyRemote
    /\ dns = <<>>
    /\ tcp = {}
    /\ web = <<>>
    /\ EnumIdle /\ ResolveIdle /\ ScanIdle /\ ProbeIdle /\ RunIdle
    /\ callFn \in Parsers
    /\ \E names \in SeqsUpTo(ParseNames, MaxRaw), d \in Domains :
          callArgs = [names |-> names, domain |-> d, body |-> BodyOf(callFn, names)]
    /\ callRet = Nil

NextParse ==
    \/ CallCrtshEnumerate
    \/ CallParseHackertargetResponse
    \/ CallParseOTXResponse

SpecParse == InitParse /\ [][NextParse]_vars

\* Run with the stages of the engine tests
InitRun ==
    /\ ctxDone = FALSE
    /\ domain = LowerDomain
    /\ axfr = FALSE
    /\ concurrency \in 1..MaxConcurrency
    /\ stages = AllMock
    /\ mocks \in MockStages
    /\ remote = EmptyRemote
    /\ dns = <<>>
    /\ tcp = {}
    /\ web = <<>>
    /\ Idle

NextRun ==
    \/ RunStart
    \/ MockEnumerate
    \/ MockResolve
    \/ MockScan
    \/ MockProbe

SpecRun == InitRun /\ [][NextRun]_vars

\* the records PortScan is called with: a record with two addresses and one
\* with none; two records with one address each; the same host twice
ScanRecords ==
    { << DNSResult(RootHost, <<"1.1.1.1", "1.1.1.2">>, <<>>), DNSResult(WHost, <<>>, RootHost) >>,
      << DNSResult(RootHost, <<"1.1.1.1">>, <<>>), DNSResult(WHost, <<"1.1.1.2">>, <<>>) >>,
      << DNSResult(WHost, <<"1.1.1.2">>, <<>>), DNSResult(WHost, <<"1.1.1.2">>, <<>>) >> }

\* the endpoints that may accept a connection
Endpoints == {<<"1.1.1.1", 443>>, <<"1.1.1.2", 80>>, <<"1.1.1.2", 443>>}

\* strings.ToUpper, for targets written in capitals
ToUpper(s) ==
    [i \in 1..Len(s) |->
        IF \E k \in DOMAIN LowerCase : LowerCase[k] = s[i]
        THEN UpperCase[CHOOSE k \in DOMAIN LowerCase : LowerCase[k] = s[i]]
        ELSE s[i]]

\* CNAME targets: a label before every pattern, in small letters and in
\* capitals; and targets matching none: another domain, a pattern without a
\* label and without its dot, a pattern followed by more, the empty target
CNAMETargets ==
    {<<"a">> \o danglingPatterns[i] : i \in DOMAIN danglingPatterns}
      \cup {ToUpper(<<"a">> \o danglingPatterns[i]) : i \in DOMAIN danglingPatterns}
      \cup { <<"c", "d", "n", ".", "x", ".", "i", "o">>,
             <<"s", "u", "r", "g", "e", ".", "s", "h">>,
             <<"a", ".", "s", "u", "r", "g", "e", ".", "s", "h", ".", "i", "o">>,
             <<>> }

\* the errors a lookup can end with
LookupErrors ==
    {NilErr, NotFoundErr, ServFailErr, CanceledErr, TimeoutErr, OtherErr,
     PlainErr(<<"w", ":", " ", "n", "o", " ", "s", "u", "c", "h", " ", "h", "o", "s", "t">>),
     PlainErr(<<"N", "o", " ", "S", "u", "c", "h", " ", "H", "o", "s", "t">>),
     PlainErr(<<"S", "e", "r", "v", "e", "r", " ", "M", "i", "s", "b", "e", "h", "a", "v", "i", "n", "g">>),
     PlainErr(<<"s", "e", "r", "v", "e", "r", " ", "m", "i", "s", "b", "e", "h", "a", "v", "i", "n", "g", ",", " ", "n", "o", " ", "s", "u", "c", "h", " ", "h", "o", "s", "t">>)}

\* checkDangling called on its own
InitDangling ==
    /\ ctxDone = FALSE
    /\ domain = LowerDomain
    /\ axfr = FALSE
    /\ concurrency = 1
    /\ stages = AllMock
    /\ mocks = CHOOSE m \in PipeMocks : TRUE
    /\ remote = EmptyRemote
    /\ dns = <<>>
    /\ tcp = {}
    /\ web = <<>>
    /\ EnumIdle /\ ResolveIdle /\ ScanIdle /\ ProbeIdle /\ RunIdle
    /\ callFn = "checkDangling"
    /\ callArgs \in [host : {WHost}, cname : CNAMETargets, err : LookupErrors]
    /\ callRet = Nil

NextDangling == CheckDanglingReturn

SpecDangling == InitDangling /\ [][NextDangling]_vars

\* a host under a listed suffix
SurgeHost == <<"o", ".", "s", "u", "r", "g", "e", ".", "s", "h">>

\* the DNS seen by DNSResolve called on its own
ResolveWorlds ==
    DNSWorlds \cup
    { \* the root is live behind a CNAME under a listed suffix; w points at an
      \* unclaimed site; the host under the suffix has itself as CNAME and
      \* no address
      (RootHost :> Answer(FALSE, <<"a", ".", "g", "i", "t", "h", "u", "b", ".", "i", "o", ".">>,
                          NilErr, <<"1.1.1.1">>)) @@
      (WHost :> Answer(FALSE, <<"a", ".", "G", "h", "o", "s", "t", ".", "i", "o">>,
                       ServFailErr, <<>>)) @@
      (SurgeHost :> Answer(FALSE, <<"O", ".", "s", "u", "r", "g", "e", ".", "s", "h", ".">>,
                           NotFoundErr, <<>>)),
      \* the host under the suffix has itself as CNAME and an address
      (SurgeHost :> Answer(FALSE, <<"o", ".", "s", "u", "r", "g", "e", ".", "s", "h">>,
                           NilErr, <<"1.1.1.3">>)) }

\* the hosts DNSResolve is called with
ResolveHosts == { <<RootHost, WHost>>, <<WHost, SurgeHost, RootHost>> }

\* DNSResolve called on its own
InitResolve ==
    /\ ctxDone = FALSE
    /\ domain = LowerDomain
    /\ axfr = FALSE
    /\ concurrency = 1
    /\ stages = AllMock
    /\ mocks = CHOOSE m \in PipeMocks : TRUE
    /\ remote = EmptyRemote
    /\ dns \in ResolveWorlds
    /\ tcp = {}
    /\ web = <<>>
    /\ Idle

NextResolve ==
    \/ \E hosts \in ResolveHosts, c \in 1..MaxConcurrency : CallDNSResolve(hosts, c)
    \/ \E i \in DOMAIN workerPc : ResolveWorker(i)
    \/ \E i \in DOMAIN workerPc : ResolveLookup(i)
    \/ DNSResolveReturn
    \/ Cancel

SpecResolve == InitResolve /\ [][NextResolve]_vars

\* the networks of a whole run: the root host listens on 80 and 443 and
\* answers both schemes, or on 443 alone and answers https after redirects
RunNetworks ==
    { [tcp |-> {<<"1.1.1.1", 80>>, <<"1.1.1.1", 443>>},
       web |-> [k \in {RootHost} \X {80, 443} \X {"http", "https"} |-> Responds(0, 200)]],
      [tcp |-> {<<"1.1.1.1", 443>>},
       web |-> [k \in {RootHost} \X {443} \X {"http", "https"} |->
                   IF k[3] = "https" THEN Responds(2, 500) ELSE NoResponse]] }

\* Run with the recon stages, the root host live and w dangling
InitFull ==
    /\ ctxDone = FALSE
    /\ domain = LowerDomain
    /\ axfr = TRUE
    /\ concurrency = MaxConcurrency
    /\ stages = RealPipeline
    /\ mocks = CHOOSE m \in PipeMocks : TRUE
    /\ remote = EmptyRemote
    /\ dns \in {world \in DNSWorlds : /\ world[RootHost].addr.err.nil
                                      /\ ~world[WHost].addr.err.nil}
    /\ \E net \in RunNetworks : tcp = net.tcp /\ web = net.web
    /\ Idle

NextFull ==
    \/ RunStart
    \/ CrtshSource
    \/ BruteSource
    \/ HackertargetSource
    \/ OTXSource
    \/ ZoneTransferSource
    \/ EnumerateReturnsToRun
    \/ \E i \in DOMAIN workerPc : ResolveWorker(i)
    \/ \E i \in DOMAIN workerPc : ResolveLookup(i)
    \/ ResolveReturnsToRun
    \/ \E i \in DOMAIN scanPc : ScanWorker(i)
    \/ \E i \in DOMAIN scanPc : ScanDial(i)
    \/ ScanReturnsToRun
    \/ \E i \in DOMAIN probePc : ProbeWorker(i)
    \/ \E i \in DOMAIN probePc : ProbeRequest(i)
    \/ ProbeReturnsToRun
    \/ Cancel

SpecFull == InitFull /\ [][NextFull]_vars

\* header maps of a response (lower-case names): server and cf-ray each
\* absent, empty or with a value
ServerValues ==
    { <<>>, <<"N", "g", "i", "n", "x", "/", "1">>, <<"p", "h", "p">>, <<"i", "i", "s">> }
RayValues == { <<>>, <<"7", "f">> }
HeaderMaps ==
    { <<>> }
      \cup {(<<"s", "e", "r", "v", "e", "r">> :> v) : v \in ServerValues}
      \cup {(<<"c", "f", "-", "r", "a", "y">> :> v) : v \in RayValues}
      \cup {(<<"s", "e", "r", "v", "e", "r">> :> v) @@ (<<"c", "f", "-", "r", "a", "y">> :> w) :
                v \in ServerValues, w \in RayValues}

\* bodies and cookie names of a response
Bodies == { <<>>, <<"/", "w", "p", "-", "c">>, <<"_", "N", "E", "X", "T", "_">> }
CookieJars == { <<>>, << <<"L", "a", "r", "a">> >>, << <<"s", "i", "d">>, <<"p", "h", "p", "s", "i", "d">> >> }
\* the body and the cookies one response carries
Pages ==
    { p \in Bodies \X CookieJars : (p[1] = <<>>) = (Len(p[2]) # 1) }

\* a service as the prober left it, with the technologies of an earlier pass
Probed1(server) ==
    [URL |-> "http://x.io:80", Server |-> server,
     Technologies |-> <<[Name |-> "jQuery", Category |-> "js-library"]>>]
\* services the probe data says nothing about
Unprobed(url, server) == [URL |-> url, Server |-> server, Technologies |-> <<>>]

\* the service lists FingerprintServices is called with
ServiceLists ==
    LET a == Probed1(<<"i", "i", "s">>)
        b == Unprobed("https://x.io:443", <<"n", "g", "i", "n", "x">>)
        c == Unprobed("http://w.x.io:80", <<>>)
        d == Unprobed("https://w.x.io:443", <<"P", "h", "p", "/", "8">>)
    IN  { <<a, b>>, <<b, c, a>>, <<d, a, c>>, <<c, d, b>> }

\* FingerprintServices called on its own, with probe data for one URL
InitFingerprint ==
    /\ ctxDone = FALSE
    /\ domain = LowerDomain
    /\ axfr = FALSE
    /\ concurrency = 1
    /\ stages = AllMock
    /\ mocks = CHOOSE m \in PipeMocks : TRUE
    /\ remote = EmptyRemote
    /\ dns = <<>>
    /\ tcp = {}
    /\ web = <<>>
    /\ EnumIdle /\ ResolveIdle /\ ScanIdle /\ ProbeIdle /\ RunIdle
    /\ callFn = "FingerprintServices"
    /\ \E h \in HeaderMaps, page \in Pages :
          callArgs = [probes |-> ("http://x.io:80" :> ProbeData(h, page[1], page[2]))]
    /\ callRet = <<>>

\* a call on a fresh list, or on the services a previous call left
NextFingerprint ==
    \E services \in ServiceLists \cup {callRet[n].out : n \in DOMAIN callRet} :
        CallFingerprintServices(services)

SpecFingerprint == InitFingerprint /\ [][NextFingerprint]_vars

\* PortScan called on its own
InitScan ==
    /\ ctxDone = FALSE
    /\ domain = LowerDomain
    /\ axfr = FALSE
    /\ concurrency = 1
    /\ stages = AllMock
    /\ mocks = CHOOSE m \in PipeMocks : TRUE
    /\ remote = EmptyRemote
    /\ dns = <<>>
    /\ tcp \in SUBSET Endpoints
    /\ web = <<>>
    /\ Idle

NextScan ==
    \/ \E records \in ScanRecords, c \in 1..MaxConcurrency : CallPortScan(records, CfgPorts, c)
    \/ \E i \in DOMAIN scanPc : ScanWorker(i)
    \/ \E i \in DOMAIN scanPc : ScanDial(i)
    \/ PortScanReturn
    \/ Cancel

SpecScan == InitScan /\ [][NextScan]_vars

\* the open ports HTTPProbe is called with: a plain and a TLS-first port of
\* one host; TLS-first ports of two hosts
ProbePorts ==
    { << PortResult(RootHost, "1.1.1.1", 80), PortResult(RootHost, "1.1.1.1", 443) >>,
      << PortResult(WHost, "1.1.1.2", 8443), PortResult(RootHost, "1.1.1.1", 443) >> }

\* what a server can do with a request
Servers ==
    {NoResponse, Responds(0, 200), Responds(0, 500)}
      \cup {Responds(n, 200) : n \in (maxRedirects - 1)..MaxChain}

\* the servers of a network: nothing answers on the w host, and every
\* endpoint of the root host answers each scheme the same way
Webs ==
    {[k \in {RootHost, WHost} \X {80, 443, 8443} \X {"http", "https"} |->
         IF k[1] = WHost THEN NoResponse
         ELSE IF k[3] = "http" THEN plain ELSE tls] : plain \in Servers, tls \in Servers}

\* HTTPProbe called on its own
InitProbe ==
    /\ ctxDone = FALSE
    /\ domain = LowerDomain
    /\ axfr = FALSE
    /\ concurrency = 1
    /\ stages = AllMock
    /\ mocks = CHOOSE m \in PipeMocks : TRUE
    /\ remote = EmptyRemote
    /\ dns = <<>>
    /\ tcp = {}
    /\ web \in Webs
    /\ Idle

NextProbe ==
    \/ \E openPorts \in ProbePorts, c \in 1..MaxConcurrency : CallHTTPProbe(openPorts, c)
    \/ \E i \in DOMAIN probePc : ProbeWorker(i)
    \/ \E i \in DOMAIN probePc : ProbeRequest(i)
    \/ HTTPProbeReturn
    \/ Cancel

SpecProbe == InitProbe /\ [][NextProbe]_vars

\* Run with the recon Enumerator and Resolver
InitPipe ==
    /\ ctxDone \in BOOLEAN
    /\ domain = LowerDomain
    /\ axfr \in BOOLEAN
    /\ concurrency \in 1..MaxConcurrency
    /\ stages = RealDiscovery
    /\ mocks \in PipeMocks
    /\ remote = SmallRemote
    /\ dns \in DNSWorlds
    /\ tcp = {}
    /\ web = <<>>
    /\ Idle

NextPipe ==
    \/ RunStart
    \/ CrtshSource
    \/ BruteSource
    \/ HackertargetSource
    \/ OTXSource
    \/ ZoneTransferSource
    \/ EnumerateReturnsToRun
    \/ \E i \in DOMAIN workerPc : ResolveWorker(i)
    \/ \E i \in DOMAIN workerPc : ResolveLookup(i)
    \/ ResolveReturnsToRun
    \/ MockScan
    \/ MockProbe
    \/ Cancel

SpecPipe == InitPipe /\ [][NextPipe]_vars

----------------------------------------------------------------------------
(* Properties of Enumerate                                                 *)

\* the source list of host h in the returned aggregate (empty when absent)
SourcesOf(h) ==
    LET at == {i \in DOMAIN enumRet.subs : enumRet.subs[i].Host = h}
    IN  IF at = {} THEN <<>> ELSE enumRet.subs[CHOOSE i \in at : TRUE].Sources

\* source s returned without error
Succeeded(s) == srcPc[s] = "done" /\ ~srcRet[s].err

\* source s was started and returned an error
Failed(s) == srcPc[s] = "done" /\ srcRet[s].err

\* source s yielded at least one host
Yielded(s) == Succeeded(s) /\ srcRet[s].hosts # <<>>

\* C1: once Enumerate has returned, whatever the sources did, the aggregate
\* holds the lower-cased target domain and its provenance includes "root".
C1_RootAlwaysPresent ==
    enumPc = "returned" =>
        /\ ~enumRet.err
        /\ "root" \in Range(SourcesOf(ToLower(domain)))

\* C1 witness: Enumerate returned for a mixed-case domain after every source
\* failed or found nothing.
C1_Witness ==
    /\ enumPc = "returned"
    /\ domain = MixedDomain
    /\ axfr
    /\ \A s \in SourceNames : ~Yielded(s)
    /\ \A s \in SourceNames \ {"brute"} : Failed(s)

\* C2: in the returned aggregate every hostname appears once and is
\* lower-cased, every source list is non-empty and duplicate-free, a host
\* reported by two sources carries both names, and every listed name is
\* "root" or the name of a source that ran in this call and reported the host.
C2_AggregateWellFormed ==
    enumPc = "returned" =>
        LET subs == enumRet.subs
        IN  /\ \A i, j \in DOMAIN subs : i # j => subs[i].Host # subs[j].Host
            /\ \A i \in DOMAIN subs :
                /\ subs[i].Host = ToLower(subs[i].Host)
                /\ subs[i].Sources # <<>>
                /\ \A a, b \in DOMAIN subs[i].Sources :
                       a # b => subs[i].Sources[a] # subs[i].Sources[b]
                /\ \A n \in Range(subs[i].Sources) :
                    \/ n = "root" /\ subs[i].Host = ToLower(domain)
                    \/ /\ n \in SourceNames
                       /\ Started(n)
                       /\ Succeeded(n)
                       /\ subs[i].Host \in Range(srcRet[n].hosts)
            /\ \A s, t \in SourceNames :
                 (s # t /\ Succeeded(s) /\ Succeeded(t)) =>
                    \A h \in Range(srcRet[s].hosts) \cap Range(srcRet[t].hosts) :
                        {s, t} \subseteq Range(SourcesOf(h))

\* C2 witness: a host reported by two sources, one of them reporting it twice.
C2_Witness ==
    /\ enumPc = "returned"
    /\ \E h \in Range(srcRet["crt.sh"].hosts) :
        /\ Succeeded("crt.sh")
        /\ Succeeded("brute")
        /\ Cardinality({i \in DOMAIN srcRet["brute"].hosts :
                            srcRet["brute"].hosts[i] = h}) = 2
        /\ Len(SourcesOf(h)) = 2

\* C3: Enumerate returns only after every started source has finished, and
\* its result holds every host of every source that succeeded, whichever
\* other sources failed.
C3_SourceIsolation ==
    enumPc = "returned" =>
        /\ \A s \in SourceNames : Started(s) => srcPc[s] = "done"
        /\ \A s \in SourceNames :
             Succeeded(s) =>
                \A h \in Range(srcRet[s].hosts) : s \in Range(SourcesOf(h))

\* C3 witness: one source failed and another one's hosts are in the result.
C3_Witness ==
    /\ enumPc = "returned"
    /\ Failed("crt.sh") /\ Failed("otx")
    /\ Yielded("hackertarget")
    /\ Yielded("brute")

\* C5: Enumerate returns an error exactly when every discovery
\* source yielded zero hosts.
C5_FailsIffNoSourceYielded ==
    enumPc = "returned" =>
        (enumRet.err <=> \A s \in SourceNames : ~Yielded(s))

----------------------------------------------------------------------------
(* Properties of Run                                                       *)

StageOrder == <<"enumerate", "resolve", "scan", "probe", "fingerprint">>

\* the positions of the trace holding an event of this kind for this stage
EventsOf(kind, stage) == {i \in DOMAIN trace : trace[i].ev = kind /\ trace[i].stage = stage}

Called(stage) == EventsOf("call", stage) # {}
Returned(stage) == EventsOf("ret", stage) # {}

\* the arguments of the (only) call of a stage, and what the stage returned
ArgsOf(stage) == trace[CHOOSE i \in EventsOf("call", stage) : TRUE].data
OutOf(stage) == trace[CHOOSE i \in EventsOf("ret", stage) : TRUE].data

RunReturnedResult == pc = "done" /\ runRet.err = ""
RunReturnedError == pc = "done" /\ runRet.err # ""

\* the warning text Enumerate uses for a source
WarningSource(s) == IF s = "axfr" THEN "zone transfer" ELSE s

\* C4: whenever Run has returned a ScanResult, every discovery source that
\* failed during Enumerate has a warning of its own in the result's Warnings.
C4_FailedSourceWarned ==
    RunReturnedResult =>
        \A s \in SourceNames :
            Failed(s) =>
                \E i \in DOMAIN runRet.result.Warnings :
                    runRet.result.Warnings[i].source = WarningSource(s)

\* C6: when ctx is already cancelled at the moment Run calls the enumerator,
\* Run ends with the "no subdomains" error and no ScanResult, the enumeration
\* having discovered no host.
C6_CancelledBeforeStartIsFatal ==
    (pc = "done" /\ ArgsOf("enumerate")[1]) =>
        /\ runRet.err = "no subdomains discovered"
        /\ runRet.result = Nil
        /\ enumRet.subs = <<>>

\* C7: Run returns an error, and then no ScanResult, exactly when the
\* enumerator returned an error or no subdomain; otherwise it returns a
\* ScanResult and a nil error whatever the resolver, scanner and prober
\* returned as error, and it went on with the data each of them returned.
C7_OnlyEnumerationIsFatal ==
    pc = "done" =>
        LET enum == OutOf("enumerate")
        IN  /\ RunReturnedError <=> (enum.err \/ enum.out = <<>>)
            /\ RunReturnedError => runRet.result = Nil /\ ~Called("resolve")
            /\ RunReturnedResult =>
                /\ runRet.result = result
                /\ Returned("resolve")
                /\ result.DNSRecords = OutOf("resolve").out[1]
                /\ (\E i \in DOMAIN result.DNSRecords : result.DNSRecords[i].IPs # <<>>)
                       => Returned("scan") /\ result.OpenPorts = OutOf("scan").out
                /\ (Returned("scan") /\ OutOf("scan").out # <<>>)
                       => Returned("probe") /\ Len(result.HTTPServices) = Len(OutOf("probe").out)

C7_Witness ==
    /\ RunReturnedResult
    /\ Returned("resolve") /\ Returned("scan") /\ Returned("probe")
    /\ OutOf("resolve").err /\ OutOf("scan").err /\ OutOf("probe").err
    /\ Called("fingerprint")

\* C8: a resolver output with no record holding an address ends the run at
\* once, without error, with no scanner, prober or fingerprinter call and empty
\* open-port and HTTP-service collections; a scanner output with no open port
\* ends it with no prober or fingerprinter call; the fingerprinter is called
\* exactly when the prober returned at least one service.
C8_EarlyExit ==
    /\ (Returned("resolve") /\ \A i \in DOMAIN OutOf("resolve").out[1] :
                                    OutOf("resolve").out[1][i].IPs = <<>>)
           => /\ ~Called("scan") /\ ~Called("probe") /\ ~Called("fingerprint")
              /\ RunReturnedResult
              /\ runRet.result.OpenPorts = <<>>
              /\ runRet.result.HTTPServices = <<>>
    /\ (Returned("scan") /\ OutOf("scan").out = <<>>)
           => /\ ~Called("probe") /\ ~Called("fingerprint")
              /\ RunReturnedResult
    /\ Called("fingerprint") <=> (Returned("probe") /\ OutOf("probe").out # <<>>)

C8_Witness ==
    /\ pc = "done"
    /\ Returned("resolve")
    /\ OutOf("resolve").out[1] # <<>>
    /\ \A i \in DOMAIN OutOf("resolve").out[1] : OutOf("resolve").out[1][i].IPs = <<>>
    /\ ~Called("scan")

\* the stages called so far, in call order
RECURSIVE CallsIn(_)
CallsIn(tr) ==
    IF tr = <<>> THEN <<>>
    ELSE IF Head(tr).ev = "call" THEN <<Head(tr).stage>> \o CallsIn(Tail(tr))
    ELSE CallsIn(Tail(tr))

\* the stage-start notifications so far, in order
RECURSIVE StagesIn(_)
StagesIn(tr) ==
    IF tr = <<>> THEN <<>>
    ELSE IF Head(tr).ev = "stage" THEN <<Head(tr).data>> \o StagesIn(Tail(tr))
    ELSE StagesIn(Tail(tr))

\* C9: the stages are called in the order enumerate, resolve, scan, probe,
\* fingerprint, each at most once and only after the previous one returned;
\* the resolver receives every subdomain host, the scanner the resolver's
\* records, the prober the scanner's open ports, the fingerprinter the prober's
\* services; stage notifications carry strictly increasing indices out of 5.
C9_StageOrderAndDataFlow ==
    LET calls == CallsIn(trace)
        notes == StagesIn(trace)
    IN  /\ Len(calls) <= Len(StageOrder)
        /\ \A k \in DOMAIN calls : calls[k] = StageOrder[k]
        /\ \A k \in DOMAIN calls :
              k > 1 => \E r \in EventsOf("ret", StageOrder[k - 1]) :
                          \A c \in EventsOf("call", StageOrder[k]) : r < c
        /\ \A st \in Range(StageOrder) :
              /\ Cardinality(EventsOf("ret", st)) <= 1
              /\ \A r \in EventsOf("ret", st) : \E c \in EventsOf("call", st) : c < r
        /\ Called("resolve") =>
              LET subs == OutOf("enumerate").out
                  hosts == ArgsOf("resolve")[2]
              IN  /\ Len(hosts) = Len(subs)
                  /\ \A i \in DOMAIN subs : hosts[i] = subs[i].Host
        /\ Called("scan") => ArgsOf("scan")[2] = OutOf("resolve").out[1]
        /\ Called("probe") => ArgsOf("probe")[2] = OutOf("scan").out
        /\ Called("fingerprint") => ArgsOf("fingerprint")[1] = OutOf("probe").out
        /\ \A k \in DOMAIN notes : notes[k][2] = 5
        /\ \A j, k \in DOMAIN notes : j < k => notes[j][1] < notes[k][1]
        /\ Len(notes) = Len(calls)
        /\ \A k \in DOMAIN notes : notes[k][1] = k

C9_Witness ==
    /\ pc = "done"
    /\ CallsIn(trace) = StageOrder
    /\ Len(ArgsOf("resolve")[2]) = 2
    /\ Len(ArgsOf("fingerprint")[1]) = 2

\* the technology names over all services of a result
TechNames(res) ==
    {t.Name : t \in UNION {Range(svc.Technologies) : svc \in Range(res.HTTPServices)}}

\* the hosts of a result holding at least one address
HostsWithAddress(res) == {r.Host : r \in {x \in Range(res.DNSRecords) : x.IPs # <<>>}}

\* C10: whenever Run returns a ScanResult, the summary was computed once, as
\* the last step, and every count of it is the count of the final collection;
\* until then the Summary is untouched.
C10_SummaryMatchesCollections ==
    /\ RunReturnedResult =>
          LET res == runRet.result
          IN  /\ Cardinality(EventsOf("summary", "")) = 1
              /\ trace[Len(trace)].ev = "summary"
              /\ res.Summary.SubdomainsFound = Len(res.Subdomains)
              /\ res.Summary.LiveHosts = Cardinality(HostsWithAddress(res))
              /\ res.Summary.OpenPortCount = Len(res.OpenPorts)
              /\ res.Summary.HTTPServiceCount = Len(res.HTTPServices)
              /\ res.Summary.TechCount = Cardinality(TechNames(res))
              /\ res.Summary.DanglingCNAMEs = Len(res.DanglingCNAMEs)
              /\ res.Summary.ZoneTransferCount =
                    Cardinality({i \in DOMAIN res.ZoneTransfers : res.ZoneTransfers[i].Success})
    /\ ~RunReturnedResult =>
          EventsOf("summary", "") = {} /\ result.Summary = ZeroSummary

C10_Witness ==
    /\ RunReturnedResult
    /\ Len(result.DNSRecords) = 3 /\ result.Summary.LiveHosts = 1
    /\ Len(result.HTTPServices) = 2 /\ result.Summary.TechCount = 1
    /\ Len(result.ZoneTransfers) = 2 /\ result.Summary.ZoneTransferCount = 1

----------------------------------------------------------------------------
(* PortScan                                                                *)

PortScanReturned == callFn = "PortScan" /\ callRet # Nil

\* the dials started and the dials completed, as positions of dialLog
Dials == {i \in DOMAIN dialLog : dialLog[i].ev = "dial"}
DialsDone == {i \in DOMAIN dialLog : dialLog[i].ev = "done"}

\* the (record, port) pairs of a call whose first address accepts a connection
OpenPairs(records, ports) ==
    {<<i, k>> \in (DOMAIN records) \X (DOMAIN ports) :
        /\ Len(records[i].IPs) > 0
        /\ <<records[i].IPs[1], ports[k]>> \in tcp}

\* C15: PortScan, not cancelled, returns one OpenPort (host, first address,
\* port) per pair of a record with an address and a port whose connect
\* succeeded and nothing else; it dials first addresses only, and every record
\* with an address on every port
C15_OneOpenPortPerOpenPair ==
    (PortScanReturned /\ ~ctxDone) =>
        LET records == callArgs.records
            ports == callArgs.ports
            out == callRet.results
            made(i, k) == [Host |-> records[i].Host, IP |-> records[i].IPs[1], Port |-> ports[k]]
        IN  /\ callRet.err = FALSE
            /\ \A n \in DOMAIN out :
                 \E pair \in OpenPairs(records, ports) : out[n] = made(pair[1], pair[2])
            /\ \A pair \in OpenPairs(records, ports) :
                 Cardinality({n \in DOMAIN out : out[n] = made(pair[1], pair[2])})
                   = Cardinality({q \in OpenPairs(records, ports) :
                                     made(q[1], q[2]) = made(pair[1], pair[2])})
            /\ \A d \in Dials :
                 \E i \in DOMAIN records :
                    /\ Len(records[i].IPs) > 0
                    /\ dialLog[d].target.host = records[i].Host
                    /\ dialLog[d].target.ip = records[i].IPs[1]

\* a call on a record with two addresses of which only the second listens,
\* and a record without addresses, returned an open port and dialled
C15_Witness ==
    /\ PortScanReturned /\ ~ctxDone
    /\ \E i \in DOMAIN callArgs.records : Len(callArgs.records[i].IPs) = 0
    /\ \E i \in DOMAIN callArgs.records :
          /\ Len(callArgs.records[i].IPs) = 2
          /\ <<callArgs.records[i].IPs[2], 80>> \in tcp
          /\ <<callArgs.records[i].IPs[1], 80>> \notin tcp
    /\ Len(callRet.results) = 1
    /\ Cardinality(DialsDone) = 2

\* C16: no dial starts once ctx is cancelled, and PortScan called with ctx
\* already cancelled dials nothing and returns no result and a nil error
C16_NoDialAfterCancel ==
    /\ \A d \in Dials : ~dialLog[d].ctx
    /\ (PortScanReturned /\ callArgs.ctx) =>
          /\ dialLog = <<>>
          /\ callRet.results = <<>>
          /\ callRet.err = FALSE

\* ctx was cancelled after a first dial, and the call returned with a
\* listening endpoint among the items it never dialled
C16_Witness ==
    /\ PortScanReturned
    /\ ~callArgs.ctx /\ ctxDone
    /\ Dials # {}
    /\ \E pair \in OpenPairs(callArgs.records, callArgs.ports) :
          \A d \in Dials :
             dialLog[d].target # [host |-> callArgs.records[pair[1]].Host,
                                  ip |-> callArgs.records[pair[1]].IPs[1],
                                  port |-> callArgs.ports[pair[2]]]

\* C17: a dial in flight when ctx is cancelled completes with its own
\* outcome: every completed dial of a listening endpoint succeeded
C17_InFlightDialCompletes ==
    \A d \in DialsDone :
        dialLog[d].ok = (<<dialLog[d].target.ip, dialLog[d].target.port>> \in tcp)

----------------------------------------------------------------------------
(* HTTPProbe                                                               *)

HTTPProbeReturned == callFn = "HTTPProbe" /\ callRet # Nil

\* the requests made for an open port, as positions of requestLog in order
RequestsFor(pr) == {n \in DOMAIN requestLog : requestLog[n].pr = pr}

\* the services recorded for an open port
ServicesFor(pr) ==
    {n \in DOMAIN probeResults :
        probeResults[n].Host = pr.Host /\ probeResults[n].Port = pr.Port}

Encrypted == "https"
Unencrypted == "http"
OtherScheme(scheme) == IF scheme = Encrypted THEN Unencrypted ELSE Encrypted

C19_OneServicePerRespondingPort ==
    HTTPProbeReturned =>
        /\ callRet.err = FALSE
        /\ \A i \in DOMAIN callArgs.openPorts :
              LET pr == callArgs.openPorts[i]
                  got == \E n \in RequestsFor(pr) : requestLog[n].got
                  made == {k \in DOMAIN callRet.services :
                              /\ callRet.services[k].Host = pr.Host
                              /\ callRet.services[k].Port = pr.Port}
              IN  Cardinality(made) = (IF got THEN 1 ELSE 0)
        /\ \A k \in DOMAIN callRet.services :
              \E i \in DOMAIN callArgs.openPorts :
                 /\ callRet.services[k].Host = callArgs.openPorts[i].Host
                 /\ callRet.services[k].Port = callArgs.openPorts[i].Port

\* a call returned one service for two ports: both schemes answer on one
\* port, neither got a response on the other after two attempts
C19_Witness ==
    /\ HTTPProbeReturned /\ ~ctxDone
    /\ Len(callRet.services) = 1
    /\ Len(callArgs.openPorts) = 2
    /\ \E i \in DOMAIN callArgs.openPorts :
          /\ Cardinality(RequestsFor(callArgs.openPorts[i])) = 2
          /\ \A n \in RequestsFor(callArgs.openPorts[i]) : ~requestLog[n].got
    /\ \E i \in DOMAIN callArgs.openPorts :
          /\ Cardinality(RequestsFor(callArgs.openPorts[i])) = 1
          /\ \A sch \in {Encrypted, Unencrypted} :
                Server(callArgs.openPorts[i].Host, callArgs.openPorts[i].Port, sch).answers

\* C20: without cancellation a request gets its response when the server's
\* chain of redirects is at most the cap of 5 and fails when it is longer;
\* a failed request makes no service, the other scheme is tried after a
\* failed first request, and HTTPProbe returns no error
C20_RedirectsFollowedUpToCap ==
    ~ctxDone =>
        /\ \A n \in DOMAIN requestLog :
              LET e == requestLog[n]
                  server == Server(e.pr.Host, e.pr.Port, e.scheme)
              IN  /\ server.answers => (e.got <=> server.redirects <= 5)
                  /\ ~e.got =>
                        \A k \in ServicesFor(e.pr) : probeResults[k].Scheme # e.scheme
        /\ HTTPProbeReturned =>
              /\ callRet.err = FALSE
              /\ \A n \in DOMAIN requestLog :
                    (~requestLog[n].got /\ \A m \in RequestsFor(requestLog[n].pr) : m >= n)
                       => \E m \in RequestsFor(requestLog[n].pr) :
                            m > n /\ requestLog[m].scheme = OtherScheme(requestLog[n].scheme)

----------------------------------------------------------------------------
(* checkDangling and DNSResolve                                            *)

\* the target ends, whatever the case of its letters, with a listed suffix
MatchesSuffix(cname) ==
    \E i \in DOMAIN danglingPatterns :
        LET n == Len(danglingPatterns[i])
        IN  /\ Len(cname) >= n
            /\ \A k \in 1..n :
                  ToLowerChar(cname[Len(cname) - n + k]) = danglingPatterns[i][k]

\* C12: checkDangling returns a candidate exactly when the target ends with
\* a listed suffix and the lookup error is not nil; its status is NXDOMAIN
\* for host-not-found and SERVFAIL for a server failure
C12_CandidateIffSuffixAndFailure ==
    (callFn = "checkDangling" /\ callRet # Nil) =>
        /\ (callRet.out # <<>>) <=> (MatchesSuffix(callArgs.cname) /\ ~callArgs.err.nil)
        /\ \A i \in DOMAIN callRet.out :
              /\ callArgs.err = NotFoundErr => callRet.out[i].Status = "NXDOMAIN"
              /\ callArgs.err = ServFailErr => callRet.out[i].Status = "SERVFAIL"

DNSResolveReturned == callFn = "DNSResolve" /\ callRet # Nil

\* the entries of the two outputs for a host
RecordsOf(host) == {n \in DOMAIN dnsResults : dnsResults[n].Host = host}
DanglingsOf(host) == {n \in DOMAIN danglings : danglings[n].Host = host}

\* C13: a host whose addresses resolved has no dangling candidate, no host is
\* in both outputs of DNSResolve, and a host it was given has at most one
\* entry in the two together; what it returns is these outputs
C13_LiveHostNeverDangling ==
    callFn = "DNSResolve" =>
        /\ \A n \in DOMAIN lookupLog :
              lookupLog[n].answer.addr.err.nil => DanglingsOf(lookupLog[n].host) = {}
        /\ \A i \in DOMAIN callArgs.hosts :
              Cardinality(RecordsOf(callArgs.hosts[i]))
                + Cardinality(DanglingsOf(callArgs.hosts[i])) <= 1
        /\ callRet # Nil =>
              /\ callRet.results = dnsResults
              /\ callRet.danglings = danglings
              /\ callRet.err = FALSE

\* DNSResolve returned a live record whose CNAME is under a listed suffix,
\* and a candidate for another host
C13_Witness ==
    /\ DNSResolveReturned
    /\ \E n \in DOMAIN callRet.results :
          /\ MatchesSuffix(callRet.results[n].CNAME)
          /\ Len(callRet.results[n].IPs) > 0
    /\ callRet.danglings # <<>>

\* the CNAME answer for a host, in small letters and without the final dot
NormalisedCNAME(ans) ==
    LET lower == [i \in 1..Len(ans.cname.name) |-> ToLowerChar(ans.cname.name[i])]
    IN  IF Len(lower) > 0 /\ lower[Len(lower)] = "."
        THEN SubSeq(lower, 1, Len(lower) - 1) ELSE lower

\* the lookups that answered the host itself as its CNAME
SelfCNAME ==
    {n \in DOMAIN lookupLog :
        /\ ~lookupLog[n].answer.cname.err
        /\ NormalisedCNAME(lookupLog[n].answer) = lookupLog[n].host}

\* C14: a host whose CNAME lookup answers the host itself gets a record
\* without CNAME if its addresses resolve, and no dangling candidate if they
\* do not, also when the host is under a listed suffix
C14_SelfCNAMEIsNoCNAME ==
    callFn = "DNSResolve" =>
        \A n \in SelfCNAME :
            LET host == lookupLog[n].host
            IN  /\ \A k \in RecordsOf(host) : dnsResults[k].CNAME = <<>>
                /\ lookupLog[n].answer.addr.err.nil => RecordsOf(host) # {}
                /\ ~lookupLog[n].answer.addr.err.nil => DanglingsOf(host) = {}

\* a host under a listed suffix answered itself as CNAME and its address
\* lookup failed with host-not-found, and DNSResolve returned
C14_Witness ==
    /\ DNSResolveReturned
    /\ \E n \in SelfCNAME :
          /\ MatchesSuffix(lookupLog[n].host)
          /\ lookupLog[n].answer.addr.err = NotFoundErr

----------------------------------------------------------------------------
(* Cancellation of a run                                                   *)

\* the context was cancelled after Run had started
CancelledAfterStart ==
    /\ Called("enumerate") /\ ~ArgsOf("enumerate")[1]
    /\ ctxDone

\* a service as the prober recorded it, its technologies apart
Probed(svc) ==
    [URL |-> svc.URL, Host |-> svc.Host, IP |-> svc.IP, Port |-> svc.Port,
     Scheme |-> svc.Scheme, StatusCode |-> svc.StatusCode]

----------------------------------------------------------------------------
(* FingerprintServices                                                     *)

\* two strings equal, and one string inside another, whatever the case of
\* their letters
SameFold(s, t) ==
    /\ Len(s) = Len(t)
    /\ \A k \in 1..Len(s) : ToLowerChar(s[k]) = ToLowerChar(t[k])
ContainsFold(s, t) ==
    \E i \in 0..(Len(s) - Len(t)) :
        \A k \in 1..Len(t) : ToLowerChar(s[i + k]) = ToLowerChar(t[k])

\* a declared condition of a rule matches the data: a header of that name is
\* there and its value holds the pattern (an empty pattern asks for the
\* header alone); the body holds a substring; a cookie has a declared name
HeaderConditionMatches(hm, data) ==
    \E name \in DOMAIN data.headers :
        /\ SameFold(name, hm.Name)
        /\ hm.Pattern = <<>> \/ ContainsFold(data.headers[name], hm.Pattern)
SomeConditionMatches(rule, data) ==
    \/ \E j \in DOMAIN rule.Headers : HeaderConditionMatches(rule.Headers[j], data)
    \/ \E j \in DOMAIN rule.Body : ContainsFold(data.body, rule.Body[j])
    \/ \E j \in DOMAIN rule.Cookies, k \in DOMAIN data.cookies :
          SameFold(data.cookies[k], rule.Cookies[j])

\* the names of the rules with a matching condition
FiringRules(data) ==
    {fingerprintRules[r].Name :
        r \in {q \in DOMAIN fingerprintRules : SomeConditionMatches(fingerprintRules[q], data)}}

\* the technology names a call left on a service
NamesOn(svc) == {svc.Technologies[k].Name : k \in DOMAIN svc.Technologies}

\* the probe data of a call, and the services fingerprinted from it
Probes == callArgs.probes
HasProbeData(svc) == svc.URL \in DOMAIN Probes

\* C21: the technologies of a service with probe data are those of the
\* rules of which some declared condition matches the data, no more, no less
C21_RuleFiresIffSomeConditionMatches ==
    callFn = "FingerprintServices" =>
        \A n \in DOMAIN callRet : \A i \in DOMAIN callRet[n].out :
            HasProbeData(callRet[n].out[i]) =>
                NamesOn(callRet[n].out[i]) = FiringRules(Probes[callRet[n].out[i].URL])

\* C22: a rule whose header condition has an empty pattern fires whenever
\* the header is in the response, whatever its value, the empty one included
C22_EmptyPatternMatchesOnPresence ==
    callFn = "FingerprintServices" =>
        \A n \in DOMAIN callRet : \A i \in DOMAIN callRet[n].out :
            HasProbeData(callRet[n].out[i]) =>
                \A r \in DOMAIN fingerprintRules : \A j \in DOMAIN fingerprintRules[r].Headers :
                    LET hm == fingerprintRules[r].Headers[j]
                        headers == Probes[callRet[n].out[i].URL].headers
                    IN  (hm.Pattern = <<>> /\ \E name \in DOMAIN headers : SameFold(name, hm.Name))
                            => fingerprintRules[r].Name \in NamesOn(callRet[n].out[i])

\* C23: a service has the same technologies after every call made with the
\* same probe data, whatever its place in the list, the services around it
\* and the technologies it had before; a call on the services a call left
\* leaves them as they are
C23_IdempotentOrderIndependent ==
    callFn = "FingerprintServices" =>
        /\ \A n, m \in DOMAIN callRet :
              \A i \in DOMAIN callRet[n].out, j \in DOMAIN callRet[m].out :
                 (/\ callRet[n].out[i].URL = callRet[m].out[j].URL
                  /\ callRet[n].out[i].Server = callRet[m].out[j].Server)
                    => callRet[n].out[i].Technologies = callRet[m].out[j].Technologies
        /\ \A n, m \in DOMAIN callRet :
              callRet[m].in = callRet[n].out => callRet[m].out = callRet[n].out

\* a second call was made on the services of a first that had found a
\* technology for a service carrying an older one, and a third call had the
\* same service at another place of another list
C23_Witness ==
    /\ callFn = "FingerprintServices"
    /\ \E n, m, q \in DOMAIN callRet :
          /\ n < m /\ callRet[m].in = callRet[n].out
          /\ \E i \in DOMAIN callRet[n].in :
                /\ callRet[n].in[i].Technologies # <<>>
                /\ callRet[n].out[i].Technologies # <<>>
                /\ \E j \in DOMAIN callRet[q].in :
                      j # i /\ callRet[q].in[j].URL = callRet[n].in[i].URL

\* the header map the record of a service gives: its Server value, if any
RecordHeaders(svc) ==
    IF svc.Server = <<>> THEN ProbeData(<<>>, <<>>, <<>>)
    ELSE ProbeData([name \in {<<"s", "e", "r", "v", "e", "r">>} |-> svc.Server], <<>>, <<>>)

\* C24: a service without probe data under its URL has the technologies of
\* the rules matching the header map of its record, with an empty body and no
\* cookie
C24_FallsBackToRecordHeaders ==
    callFn = "FingerprintServices" =>
        \A n \in DOMAIN callRet : \A i \in DOMAIN callRet[n].out :
            ~HasProbeData(callRet[n].out[i]) =>
                NamesOn(callRet[n].out[i]) = FiringRules(RecordHeaders(callRet[n].out[i]))

\* a call left a technology on a service without probe data and none on
\* another, while the probe data of the call holds a body and a cookie that
\* make rules fire
C24_Witness ==
    /\ callFn = "FingerprintServices"
    /\ \E n \in DOMAIN callRet :
          /\ \E i \in DOMAIN callRet[n].out :
                ~HasProbeData(callRet[n].out[i]) /\ callRet[n].out[i].Technologies # <<>>
          /\ \E i \in DOMAIN callRet[n].out :
                ~HasProbeData(callRet[n].out[i]) /\ callRet[n].out[i].Technologies = <<>>
          /\ \E i \in DOMAIN callRet[n].out :
                /\ HasProbeData(callRet[n].out[i])
                /\ {"WordPress", "Laravel"} \subseteq NamesOn(callRet[n].out[i])

----------------------------------------------------------------------------
(* Zone transfers                                                          *)

\* AttemptZoneTransfers has returned after a lookup that found nameservers
ZoneReturned == axfrRun.pc = "returned" /\ axfrRun.nameservers >= 1

\* the names a transfer gives: lower case, no trailing dot, not empty, equal
\* to the domain or inside its subtree
Harvest(names) ==
    {h \in {ToLower(TrimSuffix(n, Dot)) : n \in names} :
        h # <<>> /\ InDomain(h, ToLower(domain))}

\* the attempt recorded for nameserver i says how exchange i went
AttemptMatches(i) ==
    LET t == axfrRun.Transfers[i]
        x == axfrRun.exchanges[i]
    IN  /\ t.Nameserver = NSNames[i]
        /\ t.Success = ~x.err
        /\ t.Records = IF x.err THEN 0 ELSE Cardinality(Harvest(x.names))

C26_FailsOnlyWithoutNameservers ==
    (axfrRun.pc = "returned" /\ axfrRun.err) =>
        (axfrRun.lookupErr \/ axfrRun.nameservers = 0)

\* the aggregate Enumerate returned has host h with the zone-transfer source
InAggregate(h) ==
    \E k \in DOMAIN enumRet.subs :
        enumRet.subs[k].Host = h /\ "axfr" \in Range(enumRet.subs[k].Sources)

\* C27: once Enumerate has returned with zone transfers enabled, every
\* transfer that succeeded has its attempt, success = true, in the
\* Enumerator's zone-transfer list, and every name it gave inside the
\* domain's subtree is in the aggregate with the zone-transfer source, also
\* when a later nameserver failed or the run was cancelled afterwards.
C27_SuccessfulTransferReported ==
    (enumPc = "returned" /\ axfr) =>
        \A i \in DOMAIN axfrRun.exchanges :
            ~axfrRun.exchanges[i].err =>
                /\ \E k \in DOMAIN zoneTransfers :
                        /\ zoneTransfers[k].Nameserver = NSNames[i]
                        /\ zoneTransfers[k].Success
                /\ \A h \in Harvest(axfrRun.exchanges[i].names) : InAggregate(h)

----------------------------------------------------------------------------
(* Remote fetches: rate limits and the retry                               *)

\* the answer says "rate limited": status 429, or for HackerTarget a body
\* with the message
RateLimitAnswer(s, resp) ==
    /\ resp.transport = <<>>
    /\ \/ resp.status = 429
       \/ /\ s = "hackertarget"
          /\ resp.status = 200
          /\ \E l \in Range(resp.body) : Contains(l, hackertargetRateMsg)

\* the error a rate-limit answer is turned into
RateLimitError(s, resp) ==
    IF resp.status = 429 THEN ErrPrefix(s) \o <<" ", "r", "a", "t", "e", " ", "l", "i", "m", "i", "t", "e", "d", " ", "(", "4", "2", "9", ")">>
    ELSE <<"h", "a", "c", "k", "e", "r", "t", "a", "r", "g", "e", "t", ":", " ", "A", "P", "I", " ", "c", "o", "u", "n", "t", " ", "e", "x", "c", "e", "e", "d", "e", "d">>

ServerSide(resp) == resp.transport # <<>> \/ resp.status >= 500

\* C29: a fetch that has returned made at most two requests, and made the
\* second exactly when the first failed with a transport error or a 5xx
\* status.
C29_RetryExactlyOnServerError ==
    fetchRun.pc = "returned" =>
        /\ Len(fetchRun.requests) <= 2
        /\ (Len(fetchRun.requests) = 2) <=> ServerSide(fetchRun.requests[1])

----------------------------------------------------------------------------
(* The parsers of the remote sources                                       *)

\* a parser has returned
Parsed == callFn \in Parsers /\ callRet # Nil

\* the names of the body as the parser reads them: lower case, trimmed, and
\* for crt.sh without a leading "*."
Read(name) ==
    LET n == ToLower(TrimSpace(name))
    IN  IF callFn = "CrtshEnumerate" /\ Len(n) >= 2 /\ SubSeq(n, 1, 2) = <<"*", ".">>
        THEN SubSeq(n, 3, Len(n)) ELSE n

\* equal to the domain or ending with "." + domain
InSubtree(h, d) == h = d \/ (Len(h) > Len(d) /\ SubSeq(h, Len(h) - Len(d), Len(h)) = Dot \o d)

\* where a host first stands in the body
FirstAt(h) ==
    CHOOSE i \in DOMAIN callArgs.names :
        /\ Read(callArgs.names[i]) = h
        /\ \A j \in 1..(i - 1) : Read(callArgs.names[j]) # h

\* C30: the host list of each parser holds only non-empty lower-case names
\* equal to the domain or ending with "." + domain, each once, in the order
\* of their first occurrence in the body; names outside the subtree are
\* dropped, names inside are kept, and a crt.sh wildcard "*.x" stands as "x".
C30_ParsersFilterAndDeduplicate ==
    Parsed =>
        LET hosts == callRet.hosts
            d == callArgs.domain
        IN  /\ ~callRet.err
            /\ \A i \in DOMAIN hosts :
                   /\ hosts[i] # <<>>
                   /\ hosts[i] = ToLower(hosts[i])
                   /\ InSubtree(hosts[i], d)
                   /\ \E k \in DOMAIN callArgs.names : Read(callArgs.names[k]) = hosts[i]
            /\ \A i, j \in DOMAIN hosts : i < j =>
                   /\ hosts[i] # hosts[j]
                   /\ FirstAt(hosts[i]) < FirstAt(hosts[j])
            /\ \A k \in DOMAIN callArgs.names :
                   LET h == Read(callArgs.names[k])
                   IN  (h # <<>> /\ InSubtree(h, d)) <=> (h \in Range(hosts))

\* crt.sh answered with a wildcard entry and a name outside the subtree that
\* shares the domain's tail: the list is the bare domain alone
C30_Witness ==
    /\ Parsed /\ callFn = "CrtshEnumerate"
    /\ <<"*", ".", "x", ".", "i", "o">> \in Range(callArgs.names)
    /\ <<"w", "x", ".", "i", "o">> \in Range(callArgs.names)
    /\ callRet.hosts = << <<"x", ".", "i", "o">> >>

\* the world of the pools: the root host resolves, w does not and points at
\* an unclaimed site; two endpoints accept connections; the root host
\* answers plain requests on 80 and TLS requests on 443
PoolDNS == CHOOSE world \in DNSWorlds :
               /\ world[RootHost].addr.err.nil
               /\ world[WHost].addr.err = NotFoundErr
PoolTCP == {<<"1.1.1.1", 443>>, <<"1.1.1.2", 80>>}
PoolWeb ==
    [k \in {RootHost, WHost} \X {80, 443, 8443} \X {"http", "https"} |->
        IF k[1] = RootHost /\ ((k[2] = 80 /\ k[3] = "http") \/ (k[2] = 443 /\ k[3] = "https"))
        THEN Responds(0, 200) ELSE NoResponse]

\* one of Enumerate, DNSResolve, PortScan and HTTPProbe called on its own,
\* on a context that stays open, its goroutines followed lock by lock
InitPools ==
    /\ ctxDone = FALSE
    /\ domain = LowerDomain
    /\ axfr = TRUE
    /\ concurrency = 4
    /\ stages = RealDiscovery
    /\ mocks = CHOOSE m \in PipeMocks : TRUE
    /\ remote = SmallRemote
    /\ dns = PoolDNS
    /\ tcp = PoolTCP
    /\ web = PoolWeb
    /\ Idle

NextPools ==
    \/ CallEnumerate
    \/ \E s \in SourceNames : SourceCall(s)
    \/ \E s \in SourceNames : SourceReturn(s)
    \/ \E s \in SourceNames : SourceLock(s)
    \/ \E s \in SourceNames : SourceWrite(s)
    \/ BruteEntry
    \/ \E i \in DOMAIN bruteRun.workers : BruteWorker(i)
    \/ \E i \in DOMAIN bruteRun.workers : BruteLookup(i)
    \/ \E i \in DOMAIN bruteRun.workers : BruteLock(i)
    \/ \E i \in DOMAIN bruteRun.workers : BruteWrite(i)
    \/ BruteReturn
    \/ EnumerateReturn
    \/ \E hosts \in ResolveHosts, c \in 1..MaxConcurrency : CallDNSResolve(hosts, c)
    \/ \E i \in DOMAIN workerPc : ResolveWorker(i)
    \/ \E i \in DOMAIN workerPc : ResolveLookupReturns(i)
    \/ \E i \in DOMAIN workerPc : ResolveLock(i)
    \/ \E i \in DOMAIN workerPc : ResolveWrite(i)
    \/ DNSResolveReturn
    \/ \E records \in ScanRecords, c \in 1..MaxConcurrency : CallPortScan(records, CfgPorts, c)
    \/ \E i \in DOMAIN scanPc : ScanWorker(i)
    \/ \E i \in DOMAIN scanPc : ScanDialReturns(i)
    \/ \E i \in DOMAIN scanPc : ScanLock(i)
    \/ \E i \in DOMAIN scanPc : ScanWrite(i)
    \/ PortScanReturn
    \/ \E openPorts \in ProbePorts, c \in 1..MaxConcurrency : CallHTTPProbe(openPorts, c)
    \/ \E i \in DOMAIN probePc : ProbeWorker(i)
    \/ \E i \in DOMAIN probePc : ProbeRequestReturns(i)
    \/ \E i \in DOMAIN probePc : ProbeLock(i)
    \/ \E i \in DOMAIN probePc : ProbeWrite(i)
    \/ HTTPProbeReturn

SpecPools == InitPools /\ [][NextPools]_vars

\* the values --concurrency is given: negative, zero, one, and one whose
\* half is more than one
Budgets == {-3, 0, 1, 4}

\* Run with the recon stages, or PortScan called on its own, for each budget
\* on a context that stays open; the brute-force workers are followed one
\* by one
InitBudget ==
    /\ ctxDone = FALSE
    /\ domain = LowerDomain
    /\ axfr = FALSE
    /\ concurrency \in Budgets
    /\ stages = RealPipeline
    /\ mocks = CHOOSE m \in PipeMocks : TRUE
    /\ remote = EmptyRemote
    /\ dns = PoolDNS
    /\ tcp = {<<"1.1.1.1", 80>>, <<"1.1.1.1", 443>>}
    /\ web = [k \in {RootHost} \X {80, 443} \X {"http", "https"} |-> Responds(0, 200)]
    /\ Idle

NextBudget ==
    \/ (callFn = "" /\ RunStart)
    \/ CrtshSource
    \/ HackertargetSource
    \/ OTXSource
    \/ BruteEntry
    \/ \E i \in DOMAIN bruteRun.workers : BruteWorker(i)
    \/ \E i \in DOMAIN bruteRun.workers : BruteLookup(i)
    \/ \E i \in DOMAIN bruteRun.workers : BruteLock(i)
    \/ \E i \in DOMAIN bruteRun.workers : BruteWrite(i)
    \/ BruteReturn
    \/ SourceLock("brute")
    \/ SourceWrite("brute")
    \/ EnumerateReturnsToRun
    \/ \E i \in DOMAIN workerPc : ResolveWorker(i)
    \/ \E i \in DOMAIN workerPc : ResolveLookup(i)
    \/ ResolveReturnsToRun
    \/ (pc = "init" /\ \E records \in ScanRecords : CallPortScan(records, CfgPorts, concurrency))
    \/ \E i \in DOMAIN scanPc : ScanWorker(i)
    \/ \E i \in DOMAIN scanPc : ScanDial(i)
    \/ ScanReturnsToRun
    \/ PortScanReturn
    \/ \E i \in DOMAIN probePc : ProbeWorker(i)
    \/ \E i \in DOMAIN probePc : ProbeRequest(i)
    \/ ProbeReturnsToRun

SpecBudget == InitBudget /\ [][NextBudget]_vars

\* Run with the recon stages where hosts share addresses: the root host is
\* live, w is dangling or has two addresses, the second of which alone
\* listens on 443; every host answers plain requests on port 80
InitNested ==
    /\ ctxDone = FALSE
    /\ domain = LowerDomain
    /\ axfr = TRUE
    /\ concurrency = 2
    /\ stages = RealPipeline
    /\ mocks = CHOOSE m \in PipeMocks : TRUE
    /\ remote = EmptyRemote
    /\ dns \in {world \in DNSWorlds : world[RootHost].addr.err.nil}
    /\ tcp = {<<"1.1.1.1", 80>>, <<"1.1.1.2", 443>>}
    /\ web = [k \in {RootHost, WHost} \X {80, 443} \X {"http", "https"} |->
                 IF k[2] = 80 /\ k[3] = "http" THEN Responds(0, 200) ELSE NoResponse]
    /\ Idle

SpecNested == InitNested /\ [][NextFull]_vars

----------------------------------------------------------------------------
(* The end-to-end scenario of the aggregator                               *)

\* source s returned exactly these hosts (each at least once)
Reported(s, hosts) == Succeeded(s) /\ Range(srcRet[s].hosts) = hosts

\* source s added nothing: not started, failed, or an empty list
Empty(s) == ~Started(s) \/ ~Yielded(s)

WName == <<"w", ".", "x", ".", "i", "o">>
AName == <<"a", ".", "x", ".", "i", "o">>

\* the certificate logs and the brute force both reported w, the first
\* passive-DNS service reported a, the other sources nothing
ScenarioHappened ==
    /\ enumPc = "returned"
    /\ Reported("crt.sh", {WName})
    /\ Reported("brute", {WName})
    /\ Reported("hackertarget", {AName})
    /\ Empty("otx") /\ Empty("axfr")

\* C31: in the scenario, whatever the interleaving of the sources, the
\* aggregate is exactly a with [hackertarget], w with [crt.sh, brute] in that
\* order, and the domain with [root].
C31_ScenarioAggregate ==
    ScenarioHappened =>
        enumRet.subs =
            << [Host |-> AName, Sources |-> <<"hackertarget">>],
               [Host |-> WName, Sources |-> <<"crt.sh", "brute">>],
               [Host |-> LowerDomain, Sources |-> <<"root">>] >>

----------------------------------------------------------------------------
(* Concurrency budget                                                      *)

\* the workers of a pool that are inside their network call
Calling(workers) == {i \in DOMAIN workers : workers[i].st = "call"}

\* the network operations in flight: the source functions of Enumerate's
\* goroutines that have been called and have not returned, and the lookups,
\* dials and requests of the workers
InFlight ==
    Cardinality({s \in SourceNames \ {"brute"} : srcPc[s] = "call"})
    + Cardinality(Calling(bruteRun.workers))
    + Cardinality(Calling(workerPc))
    + Cardinality(Calling(scanPc))
    + Cardinality(Calling(probePc))

\* C32: at no point are more network operations in flight than the
\* concurrency value the operator gave.
C32_InFlightWithinConcurrency == InFlight <= concurrency

----------------------------------------------------------------------------
(* Port lists                                                              *)

\* the tokens of the call that are not blank, without the blanks around them
GivenTokens ==
    LET bare == [i \in DOMAIN callArgs.tokens |-> TrimSpace(callArgs.tokens[i])]
    IN  SelectSeq(bare, LAMBDA t : t # <<>>)

\* a token that writes a number: digits, possibly after a sign
IsNumber(t) ==
    LET d == IF t # <<>> /\ t[1] \in {"+", "-"} THEN SubSeq(t, 2, Len(t)) ELSE t
    IN  d # <<>> /\ \A i \in DOMAIN d : d[i] \in {"0", "1", "2", "3", "4", "5", "6", "7", "8", "9"}

\* ten to the power k
RECURSIVE Pow10(_)
Pow10(k) == IF k = 0 THEN 1 ELSE 10 * Pow10(k - 1)

\* the number a token writes, by the weight of its digits
NumberOf(t) ==
    LET neg == t[1] = "-"
        d == IF t[1] \in {"+", "-"} THEN SubSeq(t, 2, Len(t)) ELSE t
        RECURSIVE sum(_)
        sum(i) == IF i > Len(d) THEN 0
                  ELSE DigitValue(d[i]) * Pow10(Len(d) - i) + sum(i + 1)
    IN  IF neg THEN 0 - sum(1) ELSE sum(1)

\* C33: parsePorts returns an error and no list when a token is not a number,
\* when a number is outside 1..65535 or when no token is left; otherwise it
\* returns the given ports, each once, in the order of their first mention.
C33_ParsePortsContract ==
    (callFn = "parsePorts" /\ callRet # Nil) =>
        LET toks == GivenTokens
            ports == callRet.ports
            refused == \/ toks = <<>>
                       \/ \E i \in DOMAIN toks :
                            \/ ~IsNumber(toks[i])
                            \/ NumberOf(toks[i]) \notin 1..65535
            first(n) == CHOOSE i \in DOMAIN toks :
                            /\ NumberOf(toks[i]) = n
                            /\ \A j \in 1..(i - 1) : NumberOf(toks[j]) # n
        IN  IF refused
            THEN callRet.err /\ ports = <<>>
            ELSE /\ ~callRet.err
                 /\ Range(ports) = {NumberOf(toks[i]) : i \in DOMAIN toks}
                 /\ \A a, b \in DOMAIN ports : a < b => first(ports[a]) < first(ports[b])
                 /\ \A a \in DOMAIN ports : ports[a] \in 1..65535

\* C33 witness: a list returned for a value with a blank token and a port
\* written twice, in two spellings.
C33_Witness ==
    /\ callFn = "parsePorts" /\ callRet # Nil
    /\ ~callRet.err
    /\ Len(GivenTokens) < Len(callArgs.tokens)
    /\ Len(callRet.ports) < Len(GivenTokens)
    /\ \E i, j \in DOMAIN GivenTokens : i # j /\ GivenTokens[i] # GivenTokens[j]

\* C34: after the initialisation the port table is strictly ascending, holds
\* exactly the values of its source list, and every port is within 1..65535.
C34_Top100SortedDistinctInRange ==
    (callFn = "init" /\ callRet # Nil) =>
        LET t == callRet.Top100
        IN  /\ \A i \in 1..(Len(t) - 1) : t[i] < t[i + 1]
            /\ Range(t) = Range(callArgs.Top100)
            /\ \A i \in DOMAIN t : t[i] \in 1..65535

\* C34 witness: the table built from the shipped list, which names a port
\* twice and is not in ascending order as written.
C34_Witness ==
    /\ callFn = "init" /\ callRet # Nil
    /\ callArgs.Top100 = Top100
    /\ Len(callRet.Top100) < Len(callArgs.Top100)
    /\ \E i \in 1..(Len(Top100) - 1) : Top100[i] > Top100[i + 1]

----------------------------------------------------------------------------
(* Worker pools and their mutexes                                          *)

\* how often x is in a list
Count(seq, x) == Cardinality({i \in DOMAIN seq : seq[i] = x})

\* two lists hold the same items the same number of times
SameItems(a, b) ==
    /\ Len(a) = Len(b)
    /\ \A x \in Range(a) \cup Range(b) : Count(a, x) = Count(b, x)

\* a pool at rest: the channel drained and every worker returned
Drained(queue, workers) == queue = <<>> /\ \A i \in DOMAIN workers : workers[i].st = "exit"

\* every worker is inside mu.Lock() or has returned: the places where a
\* pool can wait, in Lock and in wg.Wait
Waiting(workers) == \A i \in DOMAIN workers : workers[i].st \in {"lock", "exit"}

\* a step of some worker of each pool
ResolverStep ==
    \E i \in DOMAIN workerPc :
        ResolveWorker(i) \/ ResolveLookupReturns(i) \/ ResolveLock(i) \/ ResolveWrite(i)
ScannerStep ==
    \E i \in DOMAIN scanPc : ScanWorker(i) \/ ScanDialReturns(i) \/ ScanLock(i) \/ ScanWrite(i)
ProberStep ==
    \E i \in DOMAIN probePc :
        ProbeWorker(i) \/ ProbeRequestReturns(i) \/ ProbeLock(i) \/ ProbeWrite(i)
BruteStep ==
    \E i \in DOMAIN bruteRun.workers :
        BruteWorker(i) \/ BruteLookup(i) \/ BruteLock(i) \/ BruteWrite(i)

\* C35: with at least one worker and no cancellation, a pool that has
\* returned has processed every queued item exactly once, its queue is empty
\* and its workers have all exited; and a pool that has not returned, with
\* every worker inside Lock or returned, can still take a step or return.
C35_PoolsProcessEachItemOnce ==
    /\ (callFn = "DNSResolve" /\ callRet # Nil) =>
          /\ Drained(work, workerPc)
          /\ SameItems([i \in DOMAIN lookupLog |-> lookupLog[i].host], callArgs.hosts)
    /\ (callFn = "PortScan" /\ callRet # Nil) =>
          LET queued == Targets(callArgs.records, callArgs.ports)
              log(ev) == SelectSeq(dialLog, LAMBDA e : e.ev = ev)
          IN  /\ Drained(scanWork, scanPc)
              /\ SameItems([i \in DOMAIN log("dial") |-> log("dial")[i].target], queued)
              /\ SameItems([i \in DOMAIN log("done") |-> log("done")[i].target], queued)
    /\ (callFn = "HTTPProbe" /\ callRet # Nil) =>
          LET requests(pr) == SelectSeq(requestLog, LAMBDA e : e.pr = pr)
          IN  /\ Drained(probeWork, probePc)
              /\ \A e \in Range(requestLog) : e.pr \in Range(callArgs.openPorts)
              /\ \A pr \in Range(callArgs.openPorts) :
                    /\ Len(requests(pr)) >= Count(callArgs.openPorts, pr)
                    /\ \A scheme \in {"http", "https"} :
                          Count([i \in DOMAIN requests(pr) |-> requests(pr)[i].scheme], scheme)
                              <= Count(callArgs.openPorts, pr)
                    /\ Cardinality({i \in DOMAIN requests(pr) : requests(pr)[i].got})
                          <= Count(callArgs.openPorts, pr)
    /\ bruteRun.pc = "returned" =>
          /\ Drained(bruteRun.work, bruteRun.workers)
          /\ SameItems(bruteRun.lookups, [i \in DOMAIN Words |-> i])
    /\ (callFn = "DNSResolve" /\ callRet = Nil /\ Waiting(workerPc)) =>
          ENABLED (ResolverStep \/ DNSResolveReturn)
    /\ (callFn = "PortScan" /\ callRet = Nil /\ Waiting(scanPc)) =>
          ENABLED (ScannerStep \/ PortScanReturn)
    /\ (callFn = "HTTPProbe" /\ callRet = Nil /\ Waiting(probePc)) =>
          ENABLED (ProberStep \/ HTTPProbeReturn)
    /\ (bruteRun.pc = "running" /\ Waiting(bruteRun.workers)) =>
          ENABLED (BruteStep \/ BruteReturn)

\* C35 witness: DNSResolve has returned after two workers shared three
\* hosts, with a record and a candidate appended.
C35_Witness ==
    /\ callFn = "DNSResolve" /\ callRet # Nil
    /\ Len(workerPc) = 2
    /\ Len(lookupLog) = 3
    /\ callRet.results # <<>> /\ callRet.danglings # <<>>

\* the goroutines that are at their writes under each mutex, by the name
\* they lock it with
Writers(m) ==
    IF m = "Enumerator" THEN {<<s>> : s \in {t \in SourceNames : srcPc[t] = "write"}}
    ELSE IF m = "BruteEnumerate"
    THEN {<<"brute", i>> : i \in {k \in DOMAIN bruteRun.workers : bruteRun.workers[k].st = "write"}}
    ELSE IF m = "DNSResolve"
    THEN {<<"resolver", i>> : i \in {k \in DOMAIN workerPc : workerPc[k].st = "write"}}
    ELSE IF m = "PortScan"
    THEN {<<"scanner", i>> : i \in {k \in DOMAIN scanPc : scanPc[k].st = "write"}}
    ELSE {<<"prober", i>> : i \in {k \in DOMAIN probePc : probePc[k].st = "write"}}

\* the shared collections written under each mutex
Shared(m) ==
    IF m = "Enumerator" THEN <<hostSources, warnings, zoneTransfers>>
    ELSE IF m = "BruteEnumerate" THEN <<bruteRun.found>>
    ELSE IF m = "DNSResolve" THEN <<dnsResults, danglings>>
    ELSE IF m = "PortScan" THEN <<scanResults>>
    ELSE <<probeResults>>

\* the goroutines of the invocation of m are running
Running(m) ==
    IF m = "Enumerator" THEN enumPc = "running"
    ELSE IF m = "BruteEnumerate" THEN bruteRun.pc = "running"
    ELSE IF m = "DNSResolve" THEN workerPc # <<>>
    ELSE IF m = "PortScan" THEN scanPc # <<>>
    ELSE probePc # <<>>

\* the holder of each mutex is at its write and nowhere else, and nobody
\* else is at a write
HolderWrites == \A m \in Mutexes : Writers(m) = IF mu[m] = Free THEN {} ELSE {mu[m]}

\* C36: once the goroutines of an invocation run, every step that changes
\* one of its shared collections is taken by the goroutine holding its
\* mutex; at most one goroutine is at a write at a time, and the holder of a
\* mutex is at its write, never inside a network call.
C36_WritesUnderTheMutex ==
    [][ /\ HolderWrites'
        /\ \A m \in Mutexes :
              (Running(m) /\ Shared(m)' # Shared(m)) =>
                  /\ mu[m] # Free
                  /\ Writers(m) = {mu[m]}
                  /\ mu'[m] = Free ]_vars

\* C36 witness: a goroutine of Enumerate is at its writes while another
\* waits in e.mu.Lock(), and a third is inside its network call.
C36_Witness ==
    \E s1, s2, s3 \in SourceNames :
        /\ srcPc[s1] = "write" /\ mu["Enumerator"] = <<s1>>
        /\ srcPc[s2] = "lock"
        /\ srcPc[s3] = "call"

----------------------------------------------------------------------------
(* Cancellation during the backoff of a fetch                              *)

\* C37: a fetch waiting in its backoff on a cancelled context leaves it only
\* by returning the cancellation error, with no further request; the retry
\* is entered only from a backoff that ended on a context still open, and
\* the second request is made only from there.
C37_CancelledBackoffMakesNoSecondRequest ==
    [][ /\ (fetchRun.pc = "backoff" /\ ctxDone /\ fetchRun' # fetchRun) =>
              /\ fetchRun'.pc = "returned"
              /\ fetchRun'.err = ContextCanceled
              /\ fetchRun'.requests = fetchRun.requests
        /\ (fetchRun'.pc = "retry" /\ fetchRun.pc # "retry") =>
              fetchRun.pc = "backoff" /\ ~ctxDone
        /\ Len(fetchRun'.requests) > Len(fetchRun.requests) =>
              \/ fetchRun.pc = "idle" /\ Len(fetchRun.requests) = 0
              \/ fetchRun.pc = "retry" /\ Len(fetchRun.requests) = 1 ]_vars

\* C37 witness: the first request failed on the transport with the context
\* open, and the fetch has returned the cancellation error after that one
\* request.
C37_Witness ==
    /\ fetchRun.pc = "returned"
    /\ Len(fetchRun.requests) = 1
    /\ fetchRun.requests[1].transport \in TransportErrors
    /\ fetchRun.err = ContextCanceled

----------------------------------------------------------------------------
(* The classification of lookup failures                                   *)

\* the text holds the words, in whatever case its letters are
Mentions(text, words) ==
    \E i \in 1..(Len(text) - Len(words) + 1) :
        \A k \in DOMAIN words : ToLowerChar(text[i + k - 1]) = words[k]

\* the status of the candidate returned, "" for none
StatusReturned == IF callRet.out = <<>> THEN "" ELSE callRet.out[1].Status

\* C38: for a target ending with a listed suffix and a failed lookup, a
\* resolver error gives NXDOMAIN when flagged not-found and SERVFAIL
\* otherwise, a timeout or a cancelled lookup included; any other error
\* gives NXDOMAIN when its text mentions (in any letter case) "no such host",
\* else SERVFAIL when it mentions "server misbehaving", else no candidate.
C38_ClassificationOfLookupErrors ==
    (callFn = "checkDangling" /\ callRet # Nil
        /\ MatchesSuffix(callArgs.cname) /\ ~callArgs.err.nil) =>
        LET err == callArgs.err
        IN  /\ Len(callRet.out) <= 1
            /\ StatusReturned =
                 IF err.isDNS THEN (IF err.isNotFound THEN "NXDOMAIN" ELSE "SERVFAIL")
                 ELSE IF Mentions(err.text, << "n", "o", " ", "s", "u", "c", "h", " ", "h", "o", "s", "t" >>)
                 THEN "NXDOMAIN"
                 ELSE IF Mentions(err.text, << "s", "e", "r", "v", "e", "r", " ", "m", "i", "s", "b", "e", "h", "a", "v", "i", "n", "g" >>)
                 THEN "SERVFAIL"
                 ELSE ""

\* C38 witness: a lookup aborted by cancellation, for a target under a
\* listed suffix, recorded as SERVFAIL.
C38_Witness ==
    /\ callFn = "checkDangling" /\ callRet # Nil
    /\ MatchesSuffix(callArgs.cname)
    /\ callArgs.err = CanceledErr
    /\ StatusReturned = "SERVFAIL"

----------------------------------------------------------------------------
(* The concurrency value in each stage                                     *)

\* as many workers as the value says, none for a value below one
Unclamped(c) == IF c > 0 THEN c ELSE 0

\* half the value, and one for a value below two
HalfOrOne(c) == IF c >= 2 THEN c \div 2 ELSE 1

\* C39: DNSResolve and PortScan run as many workers as the concurrency they
\* are given and none for a value of 0 or less, in which case they look
\* nothing up, dial nothing and return empty results without an error, and
\* Run ends at the no-live-hosts exit; BruteEnumerate and HTTPProbe run half
\* the value and at least one worker.
C39_ConcurrencyPerStage ==
    /\ Called("resolve") => Len(workerPc) = Unclamped(concurrency)
    /\ (Called("scan") \/ callFn = "PortScan") => Len(scanPc) = Unclamped(concurrency)
    /\ Called("probe") => Len(probePc) = HalfOrOne(concurrency)
    /\ bruteRun.pc # "idle" => Len(bruteRun.workers) = HalfOrOne(concurrency)
    /\ concurrency <= 0 =>
          /\ lookupLog = <<>> /\ dialLog = <<>>
          /\ ~Called("scan") /\ ~Called("probe")
          /\ pc = "done" =>
                /\ runRet.err = ""
                /\ runRet.result.Subdomains # <<>>
                /\ runRet.result.DNSRecords = <<>>
                /\ runRet.result.DanglingCNAMEs = <<>>
                /\ "No live hosts found" \in progressWarn
                /\ "DNS resolution error" \notin progressWarn
          /\ (callFn = "PortScan" /\ callRet # Nil) =>
                callRet.results = <<>> /\ ~callRet.err

\* C39 witness: Run given a negative concurrency has returned at the
\* no-live-hosts exit, the brute-force source having run its one worker and
\* found a host.
C39_Witness ==
    /\ concurrency < 0
    /\ pc = "done"
    /\ "No live hosts found" \in progressWarn
    /\ Len(bruteRun.workers) = 1
    /\ Len(runRet.result.Subdomains) > 1

----------------------------------------------------------------------------
(* The collections of a ScanResult                                         *)

\* C40: in a result Run has returned, every DNS record and every dangling
\* candidate is for a host of the subdomain list; every open port is on the
\* first address of a DNS record of its host and on a configured port; every
\* HTTP service is on an open port of the result; and there are no more
\* services than open ports.
C40_CollectionsAreNested ==
    (pc = "done" /\ runRet.err = "") =>
        LET res == runRet.result
            hosts == {res.Subdomains[i].Host : i \in DOMAIN res.Subdomains}
        IN  /\ \A i \in DOMAIN res.DNSRecords : res.DNSRecords[i].Host \in hosts
            /\ \A i \in DOMAIN res.DanglingCNAMEs : res.DanglingCNAMEs[i].Host \in hosts
            /\ \A i \in DOMAIN res.OpenPorts :
                  /\ \E k \in DOMAIN res.DNSRecords :
                        /\ res.DNSRecords[k].Host = res.OpenPorts[i].Host
                        /\ res.DNSRecords[k].IPs # <<>>
                        /\ res.DNSRecords[k].IPs[1] = res.OpenPorts[i].IP
                  /\ \E k \in DOMAIN CfgPorts : CfgPorts[k] = res.OpenPorts[i].Port
            /\ \A i \in DOMAIN res.HTTPServices :
                  \E k \in DOMAIN res.OpenPorts :
                      /\ res.OpenPorts[k].Host = res.HTTPServices[i].Host
                      /\ res.OpenPorts[k].IP = res.HTTPServices[i].IP
                      /\ res.OpenPorts[k].Port = res.HTTPServices[i].Port
            /\ Len(res.HTTPServices) <= Len(res.OpenPorts)

\* C40 witness: a result with a record of two addresses, an open port on
\* the first of them for each of two hosts, and a service on each.
C40_Witness ==
    /\ pc = "done" /\ runRet.err = ""
    /\ \E i \in DOMAIN runRet.result.DNSRecords : Len(runRet.result.DNSRecords[i].IPs) = 2
    /\ Len(runRet.result.OpenPorts) = 2
    /\ Len(runRet.result.HTTPServices) = 2

====
